---- MODULE Spec2Model ----
(***************************************************************************)
(* Model of rm-qmd-hasher: the job store with its subscriber channels      *)
(* (internal/jobs/store.go), the processing task (internal/handlers/       *)
(* api.go), the hashtable registry (pkg/hashtab/service.go) and the GCD    *)
(* hashtab cache (pkg/gcdcache/service.go).                                *)
(*                                                                         *)
(* Time is a single clock `now`, in seconds.  A job object lives in `heap` *)
(* from its creation on; `jobs` is the set of ids the store's map holds,   *)
(* so that a goroutine still holding the pointer of a removed job can go   *)
(* on reading it, as in Go.                                                *)
(***************************************************************************)
EXTENDS Integers, Sequences, FiniteSets, TLC

\* ------------------------------------------------------------------ bounds
JobIds == {1, 2}
Subs == {"a", "b"}
MaxMut == 2
LifeMaxMut == 3
SweepMaxMut == 2
LifeMaxNow == 601
MaxSkew == 1
MaxSweeps == 1
DropMaxMut == 10
DropMaxFiles == 1
MaxEnv == 1
PollMaxMut == 3

\* ------------------------------------------------------- program constants
ChanCap == 10
TTL == 600
ReloadInterval == 5
Nil == -1

\* the clock readings of the cache scenarios: either side of one rate-limit interval
CacheTimes == {0, 1, ReloadInterval, ReloadInterval + 1}

VARIABLES now, heap, jobs, watchers, chans, sub,
          stream, expect, dropped, everTerminal, nmut, closes, nsweep,
          fs, reg, gcd, srcMods, gcdfile, call, nenv,
          task, poll

\* the job store (now is the clock all components read)
storeVars == <<heap, jobs, watchers, chans, sub,
               stream, expect, dropped, everTerminal, nmut, closes, nsweep>>

\* the files on disk, the hashtable registry and the GCD cache
cacheVars == <<fs, reg, gcd, srcMods, gcdfile, call, nenv>>

\* task is the upload handler and the job-processing goroutine it starts
\* poll is a request that reads a job through Get
vars == <<now, storeVars, cacheVars, task, poll>>

\* ------------------------------------------------------------------ helpers
Range(s) == {s[i] : i \in 1..Len(s)}

Without(f, k) == [x \in DOMAIN f \ {k} |-> f[x]]

Put(f, k, v) == [x \in DOMAIN f \cup {k} |-> IF x = k THEN v ELSE f[x]]

RemoveAt(s, i) == SubSeq(s, 1, i - 1) \o SubSeq(s, i + 1, Len(s))

IndexOf(s, e) == IF e \in Range(s) THEN CHOOSE i \in 1..Len(s) : s[i] = e /\ \A j \in 1..(i - 1) : s[j] # e ELSE 0

Terminal(st) == st = "success" \/ st = "error"

\* ------------------------------------------------------------- job records
\* mutant: a job is created running
NewJobRunning == [Status |-> "running", Message |-> "Job created", Progress |-> 0,
                  Operation |-> "", Files |-> <<>>, OutputDir |-> "", FileCount |-> 0,
                  CompletedAt |-> Nil]

\* the job Create builds
NewJob == [Status |-> "pending", Message |-> "Job created", Progress |-> 0,
           Operation |-> "", Files |-> <<>>, OutputDir |-> "", FileCount |-> 0,
           CompletedAt |-> Nil]

EmptyCopy == [Status |-> "", Message |-> "", Progress |-> 0, Operation |-> "",
              FileCount |-> 0, Files |-> <<>>]

\* the order in which copyJob reads the fields of the job
CopyFields == <<"Status", "Message", "Progress", "Operation", "FileCount", "Files">>

\* copyJob run in one piece, as it is under the store lock
copyJob(j) == [Status |-> j.Status, Message |-> j.Message, Progress |-> j.Progress,
               Operation |-> j.Operation, FileCount |-> j.FileCount, Files |-> j.Files]

\* one field read of a copyJob that runs without the lock
copyField(c, j, k) == [c EXCEPT ![CopyFields[k]] = j[CopyFields[k]]]

\* ----------------------------------------------------------------- channels
NewChan == [buf |-> <<>>, closed |-> FALSE, sentClosed |-> FALSE]

\* mutant: a full buffer evicts its oldest snapshot to take the new one
trySendEvict(c, snap) ==
    IF c.closed THEN [c EXCEPT !.sentClosed = TRUE]
    ELSE IF Len(c.buf) < ChanCap THEN [c EXCEPT !.buf = Append(c.buf, snap)]
    ELSE [c EXCEPT !.buf = Append(Tail(c.buf), snap)]

\* select { case ch <- jobCopy: default: }
trySend(c, snap) ==
    IF c.closed THEN [c EXCEPT !.sentClosed = TRUE]
    ELSE IF Len(c.buf) < ChanCap THEN [c EXCEPT !.buf = Append(c.buf, snap)]
    ELSE c

\* mutant: a broadcast goes to the channels of every job
ListenersOfAll(id) == UNION {Range(watchers[i]) : i \in DOMAIN watchers}

\* the channels in s.watchers[id]
Listeners(id) == IF id \in DOMAIN watchers THEN Range(watchers[id]) ELSE {}

\* broadcastLocked(id) on the job state j the mutation leaves
broadcastLocked(id, j) ==
    [s \in Subs |-> IF id \in jobs /\ s \in Listeners(id) THEN trySend(chans[s], copyJob(j)) ELSE chans[s]]

Delivered(id, s) == id \in jobs /\ s \in Listeners(id) /\ ~chans[s].closed /\ Len(chans[s].buf) < ChanCap

Dropping(id, s) == id \in jobs /\ s \in Listeners(id) /\ ~chans[s].closed /\ Len(chans[s].buf) >= ChanCap

Registered(id, s) == sub[s].pc \in {"copy", "send", "subscribed"} /\ sub[s].id = id /\ sub[s].job = id

\* mutant: a broadcast waits until every subscriber's buffer has room
MutateBlocking(id, j) ==
    /\ \A s \in Listeners(id) : chans[s].closed \/ Len(chans[s].buf) < ChanCap
    /\ heap' = [heap EXCEPT ![id] = j]
    /\ chans' = broadcastLocked(id, j)
    /\ stream' = [s \in Subs |-> IF Delivered(id, s) THEN Append(stream[s], copyJob(j)) ELSE stream[s]]
    /\ dropped' = [s \in Subs |-> dropped[s] \/ Dropping(id, s)]
    /\ expect' = [s \in Subs |-> IF Registered(id, s) THEN Append(expect[s], copyJob(j)) ELSE expect[s]]
    /\ everTerminal' = IF Terminal(j.Status) THEN everTerminal \cup {id} ELSE everTerminal
    /\ nmut' = nmut + 1

\* the bookkeeping of a mutation that broadcasts: the new object, the
\* channels, and the history variables of the subscribers
Mutate(id, j) ==
    /\ heap' = [heap EXCEPT ![id] = j]
    /\ chans' = broadcastLocked(id, j)
    /\ stream' = [s \in Subs |-> IF Delivered(id, s) THEN Append(stream[s], copyJob(j)) ELSE stream[s]]
    /\ dropped' = [s \in Subs |-> dropped[s] \/ Dropping(id, s)]
    /\ expect' = [s \in Subs |-> IF Registered(id, s) THEN Append(expect[s], copyJob(j)) ELSE expect[s]]
    /\ everTerminal' = IF Terminal(j.Status) THEN everTerminal \cup {id} ELSE everTerminal
    /\ nmut' = nmut + 1

\* mutant: every terminal update stamps again
stampAlways(j, status) ==
    IF Terminal(status) THEN now ELSE j.CompletedAt

\* the CompletedAt an update with this status leaves
stamp(j, status) ==
    IF Terminal(status) /\ j.CompletedAt = Nil THEN now ELSE j.CompletedAt

\* ------------------------------------------------------------ store actions
Create(id) ==
    /\ id \notin DOMAIN heap
    /\ heap' = Put(heap, id, NewJob)
    /\ jobs' = jobs \cup {id}
    /\ watchers' = Put(watchers, id, <<>>)
    /\ UNCHANGED <<now, chans, sub, stream, expect, dropped, everTerminal, nmut, closes, nsweep>>
    /\ UNCHANGED cacheVars

Update(id, status, message) ==
    /\ id \in jobs
    /\ Mutate(id, [heap[id] EXCEPT !.Status = status, !.Message = message,
                                   !.CompletedAt = stamp(heap[id], status)])
    /\ UNCHANGED <<now, jobs, watchers, sub, closes, nsweep>>
    /\ UNCHANGED cacheVars

UpdateWithOperation(id, status, message, operation) ==
    /\ id \in jobs
    /\ Mutate(id, [heap[id] EXCEPT !.Status = status, !.Message = message,
                                   !.Operation = operation,
                                   !.CompletedAt = stamp(heap[id], status)])
    /\ UNCHANGED <<now, jobs, watchers, sub, closes, nsweep>>
    /\ UNCHANGED cacheVars

\* mutant: only negative values are clamped
clampLow(p) == IF p < 0 THEN 0 ELSE p

\* UpdateProgress, the clamping of its argument
clamp(p) == IF p < 0 THEN 0 ELSE IF p > 100 THEN 100 ELSE p

UpdateProgress(id, p) ==
    /\ id \in jobs
    /\ Mutate(id, [heap[id] EXCEPT !.Progress = clamp(p)])
    /\ UNCHANGED <<now, jobs, watchers, sub, closes, nsweep>>
    /\ UNCHANGED cacheVars

AddFile(id, file) ==
    /\ id \in jobs
    /\ Mutate(id, [heap[id] EXCEPT !.Files = Append(heap[id].Files, file),
                                   !.FileCount = Len(heap[id].Files) + 1])
    /\ UNCHANGED <<now, jobs, watchers, sub, closes, nsweep>>
    /\ UNCHANGED cacheVars

\* mutant: SetFiles broadcasts like the other mutators
SetFilesBroadcast(id, files) ==
    /\ id \in jobs
    /\ Mutate(id, [heap[id] EXCEPT !.Files = files, !.FileCount = Len(files)])
    /\ UNCHANGED <<now, jobs, watchers, sub, closes, nsweep>>
    /\ UNCHANGED cacheVars

SetFiles(id, files) ==
    /\ id \in jobs
    /\ heap' = [heap EXCEPT ![id].Files = files, ![id].FileCount = Len(files)]
    /\ UNCHANGED <<now, jobs, watchers, chans, sub, stream, expect, dropped, everTerminal, nmut, closes, nsweep>>
    /\ UNCHANGED cacheVars

SetOutputDir(id, dir) ==
    /\ id \in jobs
    /\ heap' = [heap EXCEPT ![id].OutputDir = dir]
    /\ UNCHANGED <<now, jobs, watchers, chans, sub, stream, expect, dropped, everTerminal, nmut, closes, nsweep>>
    /\ UNCHANGED cacheVars

\* a call of a mutator on an id the map does not hold: the lookup fails
MutateMissing(id) ==
    /\ id \notin jobs
    /\ UNCHANGED <<now, storeVars, cacheVars>>

\* Subscribe, first part: under the lock, register the channel and read the
\* job pointer
SubRegister(s, id) ==
    /\ sub[s].pc = "idle"
    /\ watchers' = Put(watchers, id, (IF id \in DOMAIN watchers THEN watchers[id] ELSE <<>>) \o <<s>>)
    /\ sub' = [sub EXCEPT ![s] = [pc |-> IF id \in jobs THEN "copy" ELSE "subscribed",
                                  id |-> id, job |-> IF id \in jobs THEN id ELSE Nil,
                                  k |-> 1, copy |-> EmptyCopy]]
    /\ expect' = [expect EXCEPT ![s] = IF id \in jobs THEN <<copyJob(heap[id])>> ELSE <<>>]
    /\ UNCHANGED <<now, heap, jobs, chans, stream, dropped, everTerminal, nmut, closes, nsweep>>
    /\ UNCHANGED cacheVars

\* Subscribe, second part: copyJob(job) after the lock was released, one
\* field read at a time
SubCopyField(s) ==
    /\ sub[s].pc = "copy"
    /\ sub' = [sub EXCEPT ![s].copy = copyField(sub[s].copy, heap[sub[s].job], sub[s].k),
                          ![s].k = sub[s].k + 1,
                          ![s].pc = IF sub[s].k = Len(CopyFields) THEN "send" ELSE "copy"]
    /\ UNCHANGED <<now, heap, jobs, watchers, chans, stream, expect, dropped, everTerminal, nmut, closes, nsweep>>
    /\ UNCHANGED cacheVars

\* Subscribe, third part: ch <- jobCopy, a blocking send
SubSend(s) ==
    /\ sub[s].pc = "send"
    /\ chans[s].closed \/ Len(chans[s].buf) < ChanCap
    /\ chans' = [chans EXCEPT ![s] = IF chans[s].closed THEN [chans[s] EXCEPT !.sentClosed = TRUE]
                                     ELSE [chans[s] EXCEPT !.buf = Append(chans[s].buf, sub[s].copy)]]
    /\ stream' = [stream EXCEPT ![s] = IF chans[s].closed THEN stream[s] ELSE Append(stream[s], sub[s].copy)]
    /\ sub' = [sub EXCEPT ![s].pc = "subscribed"]
    /\ UNCHANGED <<now, heap, jobs, watchers, expect, dropped, everTerminal, nmut, closes, nsweep>>
    /\ UNCHANGED cacheVars

\* mutant: unsubscribe empties the job's subscriber list
UnsubscribeAll(s) ==
    /\ sub[s].pc \in {"subscribed", "unsubscribed"}
    /\ closes[s] < 2
    /\ watchers' = IF sub[s].id \in DOMAIN watchers THEN [watchers EXCEPT ![sub[s].id] = <<>>] ELSE watchers
    /\ chans' = [chans EXCEPT ![s].closed = TRUE]
    /\ closes' = [closes EXCEPT ![s] = closes[s] + 1]
    /\ sub' = [sub EXCEPT ![s].pc = "unsubscribed"]
    /\ UNCHANGED <<now, heap, jobs, stream, expect, dropped, everTerminal, nmut, nsweep>>
    /\ UNCHANGED cacheVars

\* mutant: unsubscribe closes the channel and leaves it in the list
UnsubscribeKeepsListed(s) ==
    /\ sub[s].pc \in {"subscribed", "unsubscribed"}
    /\ closes[s] < 2
    /\ chans' = [chans EXCEPT ![s].closed = TRUE]
    /\ closes' = [closes EXCEPT ![s] = closes[s] + 1]
    /\ sub' = [sub EXCEPT ![s].pc = "unsubscribed"]
    /\ UNCHANGED <<now, heap, jobs, watchers, stream, expect, dropped, everTerminal, nmut, nsweep>>
    /\ UNCHANGED cacheVars

\* the unsubscribe closure Subscribe returns
Unsubscribe(s) ==
    /\ sub[s].pc \in {"subscribed", "unsubscribed"}
    /\ closes[s] < 2
    /\ LET id == sub[s].id
           i == IF id \in DOMAIN watchers THEN IndexOf(watchers[id], s) ELSE 0
       IN  watchers' = IF i > 0 THEN [watchers EXCEPT ![id] = RemoveAt(watchers[id], i)]
                       ELSE IF id \in DOMAIN watchers THEN watchers
                       ELSE watchers
    /\ chans' = [chans EXCEPT ![s].closed = TRUE]
    /\ closes' = [closes EXCEPT ![s] = closes[s] + 1]
    /\ sub' = [sub EXCEPT ![s].pc = "unsubscribed"]
    /\ UNCHANGED <<now, heap, jobs, stream, expect, dropped, everTerminal, nmut, nsweep>>
    /\ UNCHANGED cacheVars

\* the consumer of the channel takes the oldest snapshot
Recv(s) ==
    /\ Len(chans[s].buf) > 0
    /\ chans' = [chans EXCEPT ![s].buf = Tail(chans[s].buf)]
    /\ UNCHANGED <<now, heap, jobs, watchers, sub, stream, expect, dropped, everTerminal, nmut, closes, nsweep>>
    /\ UNCHANGED cacheVars

\* mutant: the purge forgets the job but leaves its channels open
CleanupLeavesOpen(id) ==
    /\ watchers' = Without(watchers, id)
    /\ jobs' = jobs \ {id}
    /\ UNCHANGED <<now, heap, chans, closes, sub, stream, expect, dropped, everTerminal, nmut, nsweep>>
    /\ UNCHANGED cacheVars

\* Cleanup(id)
Cleanup(id) ==
    /\ chans' = [s \in Subs |-> IF s \in Listeners(id) THEN [chans[s] EXCEPT !.closed = TRUE] ELSE chans[s]]
    /\ closes' = [s \in Subs |-> IF s \in Listeners(id) THEN closes[s] + 1 ELSE closes[s]]
    /\ watchers' = Without(watchers, id)
    /\ jobs' = jobs \ {id}
    /\ UNCHANGED <<now, heap, sub, stream, expect, dropped, everTerminal, nmut, nsweep>>
    /\ UNCHANGED cacheVars

\* the jobs one run of cleanupOldJobs deletes
Expired(id) == heap[id].CompletedAt # Nil /\ now - heap[id].CompletedAt > TTL

\* mutant: the sweep does not look at the subscribers
UnwatchedAny(id) == TRUE

Unwatched(id) == id \notin DOMAIN watchers \/ Len(watchers[id]) = 0

sweepVictims == {id \in jobs : Expired(id) /\ Unwatched(id)}

cleanupOldJobs ==
    /\ jobs' = jobs \ sweepVictims
    /\ watchers' = [id \in DOMAIN watchers \ sweepVictims |-> watchers[id]]
    /\ nsweep' = nsweep + 1
    /\ UNCHANGED <<now, heap, chans, sub, stream, expect, dropped, everTerminal, nmut, closes>>
    /\ UNCHANGED cacheVars

Tick(d, max) ==
    /\ now + d <= max
    /\ now' = now + d
    /\ UNCHANGED <<heap, jobs, watchers, chans, sub, stream, expect, dropped, everTerminal, nmut, closes, nsweep>>
    /\ UNCHANGED cacheVars

\* ======================================================================
\* The files on disk, the hashtable registry and the GCD cache
\* ======================================================================

\* the files that can exist under the hashtable directory, in the order
\* filepath.WalkDir meets them (lexical)
WalkOrder == <<"ht/A-rm1", "ht/A-rm2", "ht/B-rm1", "ht/junk", "ht/sub/A-rm1", "ht/sub/junk">>

Paths == Range(WalkOrder)

Versions == {"A", "B"}

\* filepath.Base(path)
Base(p) == CASE p = "ht/A-rm1" -> "A-rm1"
             [] p = "ht/A-rm2" -> "A-rm2"
             [] p = "ht/B-rm1" -> "B-rm1"
             [] p = "ht/junk" -> "junk"
             [] p = "ht/sub/A-rm1" -> "A-rm1"
             [] p = "ht/sub/junk" -> "junk"

\* Load(path): whether the file parses, and the OSVersion and Device of the
\* hashtab it yields
Loadable(p) == p # "ht/junk"

OSVersion(p) == IF p \in {"ht/B-rm1", "ht/sub/junk"} THEN "B" ELSE "A"

Device(p) == IF p \in {"ht/A-rm2", "ht/sub/junk"} THEN "rm2" ELSE "rm1"

\* filepath.Join(s.gcdDir, version+".gcd")
GcdPath(v) == "gcd/" \o v \o ".gcd"

NoFile == [exists |-> FALSE, partial |-> FALSE, from |-> <<>>]

\* the path -> mtime map of the files in ps
Stat(ps) == [p \in ps \cap DOMAIN fs |-> fs[p]]

\* loadedFrom is a history field: the tree the index was last rebuilt from
EmptyReg == [hashtables |-> <<>>, byVersion |-> [v \in Versions |-> <<>>],
             modTimes |-> <<>>, pathByName |-> <<>>, lastReloadCheck |-> Nil,
             loadedFrom |-> <<>>]

\* mutant: a base name already loaded is loaded again
loadOneNoDedup(r, p) ==
    IF ~Loadable(p) THEN r
    ELSE [r EXCEPT !.hashtables = Append(r.hashtables, p),
                   !.pathByName = Put(r.pathByName, Base(p), p),
                   !.byVersion = [r.byVersion EXCEPT ![OSVersion(p)] = Append(r.byVersion[OSVersion(p)], p)],
                   !.modTimes = Put(r.modTimes, p, fs[p])]

\* the callback of the walk in loadHashtables, on the i-th path
loadOne(r, p) ==
    IF Base(p) \in DOMAIN r.pathByName THEN r
    ELSE IF ~Loadable(p) THEN r
    ELSE [r EXCEPT !.hashtables = Append(r.hashtables, p),
                   !.pathByName = Put(r.pathByName, Base(p), p),
                   !.byVersion = [r.byVersion EXCEPT ![OSVersion(p)] = Append(r.byVersion[OSVersion(p)], p)],
                   !.modTimes = Put(r.modTimes, p, fs[p])]

RECURSIVE loadWalk(_, _)
loadWalk(r, i) ==
    IF i > Len(WalkOrder) THEN r
    ELSE loadWalk(IF WalkOrder[i] \in DOMAIN fs THEN loadOne(r, WalkOrder[i]) ELSE r, i + 1)

\* the index loadHashtables builds from the files on disk
loadHashtables(last) == loadWalk([EmptyReg EXCEPT !.lastReloadCheck = last, !.loadedFrom = fs], 1)

\* time.Since(s.lastReloadCheck) < 5*time.Second
RateLimited == reg.lastReloadCheck # Nil /\ now - reg.lastReloadCheck < ReloadInterval

\* the change detection of CheckAndReload: a file that is new or has another
\* mtime than recorded, or a recorded file that is gone
needsReload ==
    \/ \E p \in DOMAIN fs : p \notin DOMAIN reg.modTimes \/ reg.modTimes[p] # fs[p]
    \/ \E p \in DOMAIN reg.modTimes : p \notin DOMAIN fs

\* CheckAndReload: the registry it leaves, and what it returns
reloaded == ~RateLimited /\ needsReload

regAfterCheck ==
    IF RateLimited THEN reg
    ELSE IF needsReload THEN loadHashtables(now)
    ELSE [reg EXCEPT !.lastReloadCheck = now]

\* GetHashtabsForVersion(version)
GetHashtabsForVersion(v) == reg.byVersion[v]

\* Go's comparison of the strings that occur as versions and device names
StrOrder == <<"A", "B", "rm1", "rm2">>

StrLess(a, b) == IndexOf(StrOrder, a) < IndexOf(StrOrder, b)

\* the sequences that list the elements of S once each
Orders(S) == {q \in [1..Cardinality(S) -> S] : Range(q) = S}

\* the keys of the map s.byVersion
IndexedVersions == {v \in Versions : Len(reg.byVersion[v]) > 0}

\* GetVersions, the body of its loop: the devices of one version, sorted
VersionInfo(v) ==
    LET devices == SortSeq([i \in 1..Len(reg.byVersion[v]) |-> Device(reg.byVersion[v][i])], StrLess)
    IN  [Version |-> v, Devices |-> devices, DeviceCount |-> Len(devices)]

\* mutant: the versions are sorted ascending
versionBeforeAscending(a, b) == StrLess(a.Version, b.Version)

\* the less function GetVersions sorts its entries with
versionBefore(a, b) == StrLess(b.Version, a.Version)

\* GetVersions, where order is the order in which the map was ranged over
GetVersions(order) ==
    SortSeq([i \in 1..Len(order) |-> VersionInfo(order[i])], versionBefore)

\* a reader calls GetVersions
GetVersionsCall(c) ==
    /\ call[c].pc = "idle"
    /\ \E order \in Orders(IndexedVersions) :
          call' = [call EXCEPT ![c].versions = GetVersions(order)]
    /\ UNCHANGED <<now, fs, reg, gcd, srcMods, gcdfile, nenv>>
    /\ UNCHANGED storeVars

\* mutant: the staleness test does not compare the device count
needsRegenNoCount(v) ==
    IF v \notin DOMAIN gcd THEN TRUE
    ELSE \E i \in 1..Len(GetHashtabsForVersion(v)) :
            LET p == GetHashtabsForVersion(v)[i]
            IN  p \in DOMAIN fs /\ (p \notin DOMAIN srcMods[v] \/ srcMods[v][p] # fs[p])

\* the staleness test of GetGCDHashtab when the registry did not reload
needsRegen(v) ==
    IF v \notin DOMAIN gcd THEN TRUE
    ELSE IF Len(GetHashtabsForVersion(v)) # gcd[v].DeviceCount THEN TRUE
    ELSE \E i \in 1..Len(GetHashtabsForVersion(v)) :
            LET p == GetHashtabsForVersion(v)[i]
            IN  p \in DOMAIN fs /\ (p \notin DOMAIN srcMods[v] \/ srcMods[v][p] # fs[p])

\* ------------------------------------------------------------ call records
IdleCall == [pc |-> "idle", kind |-> "get", ver |-> "", todo |-> <<>>, hts |-> <<>>,
             from |-> <<>>, res |-> "", err |-> FALSE,
             merges |-> 0, args |-> <<>>, regen |-> FALSE, installed |-> FALSE,
             changed |-> FALSE, synced |-> FALSE, resFrom |-> <<>>, fs0 |-> <<>>,
             resCount |-> 0, resMods |-> {}, walkErr |-> FALSE, versions |-> <<>>,
             walked |-> 0,
             prev |-> [ver |-> "", merges |-> 0, res |-> "", err |-> FALSE, valid |-> FALSE]]

\* the files of version v a load of the current tree would index
OnDisk(v) == Range(loadHashtables(Nil).byVersion[v])

InSync(v) == Range(reg.byVersion[v]) = OnDisk(v)

\* the versions a running merge is writing the artifact of
Merging(v) == {c \in DOMAIN call : call[c].pc = "merging" /\ call[c].ver = v}

\* where a call goes when its generateGCD has returned
afterGen(c, failed) ==
    IF call[c].kind = "all"
    THEN (IF Len(call[c].todo) > 0 THEN "gen" ELSE "off")
    ELSE (IF failed THEN "done" ELSE "final")

\* the next version of GenerateAll's loop
nextVer(c) == IF call[c].kind = "all" /\ Len(call[c].todo) > 0 THEN Head(call[c].todo) ELSE call[c].ver

nextTodo(c) == IF call[c].kind = "all" /\ Len(call[c].todo) > 0 THEN Tail(call[c].todo) ELSE call[c].todo

\* ------------------------------------------------------------ cache actions
\* GetGCDHashtab(version), first statement: CheckAndReload
GetCheck(c, v) ==
    /\ call[c].pc = "idle"
    /\ call["main"].pc = "off"
    /\ reg' = regAfterCheck
    /\ call' = [call EXCEPT ![c] = [IdleCall EXCEPT !.pc = IF reloaded THEN "gen" ELSE "decide",
                                                    !.ver = v, !.prev = call[c].prev,
                                                    !.synced = InSync(v), !.fs0 = Stat(OnDisk(v))]]
    /\ UNCHANGED <<now, fs, gcd, srcMods, gcdfile, nenv>>
    /\ UNCHANGED storeVars

\* the number of paths a walk has met when a directory read fails: none when
\* the root cannot be read, the files of the root when the subdirectory
\* cannot
WalkFailPoints == {0, IndexOf(WalkOrder, "ht/sub/A-rm1") - 1}

\* the rebuild walk of CheckAndReload over the k first paths
RECURSIVE loadPrefix(_, _, _)
loadPrefix(r, i, k) ==
    IF i > k THEN r
    ELSE loadPrefix(IF WalkOrder[i] \in DOMAIN fs THEN loadOne(r, WalkOrder[i]) ELSE r, i + 1, k)

\* the registry a CheckAndReload leaves whose rebuild walk fails after k
\* paths: the index was emptied before the walk
regAfterFailedRebuild(k) ==
    loadPrefix([EmptyReg EXCEPT !.lastReloadCheck = now,
                                !.loadedFrom = Stat({WalkOrder[i] : i \in 1..k})], 1, k)

\* GetGCDHashtab whose CheckAndReload fails in the change-detection walk:
\* the error is logged and the call goes on as if nothing had reloaded
DetectWalkFails(c, v) ==
    /\ call[c].pc = "idle"
    /\ call["main"].pc = "off"
    /\ ~RateLimited
    /\ reg' = [reg EXCEPT !.lastReloadCheck = now]
    /\ call' = [call EXCEPT ![c] = [IdleCall EXCEPT !.pc = "decide", !.walkErr = TRUE,
                                                    !.ver = v, !.prev = call[c].prev,
                                                    !.synced = InSync(v), !.fs0 = Stat(OnDisk(v))]]
    /\ UNCHANGED <<now, fs, gcd, srcMods, gcdfile, nenv>>
    /\ UNCHANGED storeVars

\* GetGCDHashtab whose CheckAndReload found a change and fails in the
\* rebuild walk after k paths
RebuildWalkFails(c, v, k) ==
    /\ call[c].pc = "idle"
    /\ call["main"].pc = "off"
    /\ ~RateLimited
    /\ needsReload = TRUE
    /\ reg' = regAfterFailedRebuild(k)
    /\ call' = [call EXCEPT ![c] = [IdleCall EXCEPT !.pc = "decide", !.walkErr = TRUE,
                                                    !.ver = v, !.prev = call[c].prev,
                                                    !.synced = InSync(v), !.fs0 = Stat(OnDisk(v))]]
    /\ UNCHANGED <<now, fs, gcd, srcMods, gcdfile, nenv>>
    /\ UNCHANGED storeVars

\* ---------------------------------------- CheckAndReload, path by path
\* s.mu is held for writing by the call that is inside the rebuild of
\* CheckAndReload
Locked == \E c \in DOMAIN call : call[c].pc = "rebuild"

\* CheckAndReload that returns before the rebuild: rate limited, or no
\* change found
CheckOnly(c) ==
    /\ call[c].pc = "idle"
    /\ ~Locked
    /\ reloaded = FALSE
    /\ reg' = regAfterCheck
    /\ UNCHANGED <<now, fs, call, gcd, srcMods, gcdfile, nenv>>
    /\ UNCHANGED storeVars

\* CheckAndReload that found a change: the four structures are replaced by
\* empty ones before the rebuild walk starts
RebuildBegin(c) ==
    /\ call[c].pc = "idle"
    /\ ~Locked
    /\ reloaded = TRUE
    /\ reg' = [EmptyReg EXCEPT !.lastReloadCheck = now, !.loadedFrom = fs]
    /\ call' = [call EXCEPT ![c].pc = "rebuild", ![c].walked = 0]
    /\ UNCHANGED <<now, fs, gcd, srcMods, gcdfile, nenv>>
    /\ UNCHANGED storeVars

\* the callback of the rebuild walk on the next path
RebuildStep(c) ==
    /\ call[c].pc = "rebuild"
    /\ call[c].walked < Len(WalkOrder)
    /\ LET p == WalkOrder[call[c].walked + 1]
       IN  reg' = IF p \in DOMAIN fs THEN loadOne(reg, p) ELSE reg
    /\ call' = [call EXCEPT ![c].walked = call[c].walked + 1]
    /\ UNCHANGED <<now, fs, gcd, srcMods, gcdfile, nenv>>
    /\ UNCHANGED storeVars

\* the walk is over: CheckAndReload returns true and releases s.mu
RebuildEnd(c) ==
    /\ call[c].pc = "rebuild"
    /\ call[c].walked = Len(WalkOrder)
    /\ call' = [call EXCEPT ![c].pc = "idle", ![c].walked = 0]
    /\ UNCHANGED <<now, fs, reg, gcd, srcMods, gcdfile, nenv>>
    /\ UNCHANGED storeVars

\* a directory cannot be read: the walk stops, CheckAndReload returns the
\* error and releases s.mu
RebuildFails(c) ==
    /\ call[c].pc = "rebuild"
    /\ call[c].walked \in WalkFailPoints
    /\ call' = [call EXCEPT ![c].pc = "idle", ![c].walked = 0, ![c].walkErr = TRUE]
    /\ UNCHANGED <<now, fs, reg, gcd, srcMods, gcdfile, nenv>>
    /\ UNCHANGED storeVars

\* the index a walk that meets every path of the tree builds
RECURSIVE walkOf(_, _, _)
walkOf(r, i, tree) ==
    IF i > Len(WalkOrder) THEN r
    ELSE walkOf(IF WalkOrder[i] \in tree THEN loadOne(r, WalkOrder[i]) ELSE r, i + 1, tree)

\* the index is the whole index of the tree it was last rebuilt from
CompleteIndex(r) == r.byVersion = walkOf(EmptyReg, 1, DOMAIN r.loadedFrom).byVersion

\* a reader waits while s.mu is held for writing
ReadLocked == Locked

\* a reader calls GetVersions; synced notes whether the index it read was whole
ReadVersions(c) ==
    /\ call[c].pc = "idle"
    /\ ~ReadLocked
    /\ \E order \in Orders(IndexedVersions) :
          call' = [call EXCEPT ![c].pc = "done", ![c].versions = GetVersions(order),
                               ![c].synced = CompleteIndex(reg)]
    /\ UNCHANGED <<now, fs, reg, gcd, srcMods, gcdfile, nenv>>
    /\ UNCHANGED storeVars

\* a reader calls GetHashtabsForVersion(v)
ReadHashtabs(c, v) ==
    /\ call[c].pc = "idle"
    /\ ~ReadLocked
    /\ call' = [call EXCEPT ![c].pc = "done", ![c].ver = v, ![c].hts = GetHashtabsForVersion(v),
                            ![c].synced = CompleteIndex(reg)]
    /\ UNCHANGED <<now, fs, reg, gcd, srcMods, gcdfile, nenv>>
    /\ UNCHANGED storeVars

\* GetGCDHashtab, the branch taken when the registry did not reload
Decide(c) ==
    /\ call[c].pc = "decide"
    /\ call' = [call EXCEPT ![c].pc = IF needsRegen(call[c].ver) THEN "gen" ELSE "final"]
    /\ UNCHANGED <<now, fs, reg, gcd, srcMods, gcdfile, nenv>>
    /\ UNCHANGED storeVars

\* generateGCD up to the engine call: no hashtab is an error, a single one
\* is installed as it is
GenRead(c) ==
    /\ call[c].pc = "gen"
    /\ LET v == call[c].ver
           hts == GetHashtabsForVersion(v)
       IN  /\ call' = [call EXCEPT ![c].hts = hts, ![c].regen = TRUE,
                                   ![c].merges = IF call[c].kind = "all" THEN 0 ELSE call[c].merges,
                                   ![c].args = <<>>,
                                   ![c].installed = Len(hts) = 1,
                                   ![c].err = Len(hts) = 0,
                                   ![c].ver = IF Len(hts) >= 2 THEN v ELSE nextVer(c),
                                   ![c].todo = IF Len(hts) >= 2 THEN call[c].todo ELSE nextTodo(c),
                                   ![c].pc = IF Len(hts) >= 2 THEN "merge" ELSE afterGen(c, Len(hts) = 0)]
           /\ gcd' = IF Len(hts) = 1
                     THEN Put(gcd, v, [Path |-> hts[1], SourceModTime |-> now, DeviceCount |-> 1])
                     ELSE gcd
           /\ srcMods' = IF Len(hts) = 1 THEN Put(srcMods, v, hts[1] :> now) ELSE srcMods
    /\ UNCHANGED <<now, fs, reg, gcdfile, nenv>>
    /\ UNCHANGED storeVars

\* mutant: the source paths are passed in the opposite order
mergeArgsReversed(hts) == [i \in 1..Len(hts) |-> hts[Len(hts) + 1 - i]]

\* the arguments generateGCD passes to the engine after the output path
mergeArgs(hts) == hts

\* runQmldiff starts: the engine reads its input files
MergeStart(c) ==
    /\ call[c].pc = "merge"
    /\ call' = [call EXCEPT ![c].pc = "merging",
                            ![c].args = mergeArgs(call[c].hts),
                            ![c].merges = call[c].merges + 1,
                            ![c].from = Stat(Range(mergeArgs(call[c].hts)))]
    /\ UNCHANGED <<now, fs, reg, gcd, srcMods, gcdfile, nenv>>
    /\ UNCHANGED storeVars

\* runQmldiff returns.  A run that could not read one of its inputs fails;
\* a failed run leaves the output path as it was or holding a partial file.
MergeEnd(c, outcome) ==
    /\ call[c].pc = "merging"
    /\ outcome = "ok" => DOMAIN call[c].from = Range(call[c].args)
    /\ gcdfile' = [gcdfile EXCEPT ![call[c].ver] =
                      CASE outcome = "ok" -> [exists |-> TRUE, partial |-> FALSE, from |-> call[c].from]
                        [] outcome = "partial" -> [exists |-> TRUE, partial |-> TRUE, from |-> <<>>]
                        [] OTHER -> gcdfile[call[c].ver]]
    /\ call' = [call EXCEPT ![c].pc = IF outcome = "ok" THEN "install" ELSE afterGen(c, TRUE),
                            ![c].err = outcome # "ok",
                            ![c].ver = IF outcome = "ok" THEN call[c].ver ELSE nextVer(c),
                            ![c].todo = IF outcome = "ok" THEN call[c].todo ELSE nextTodo(c)]
    /\ UNCHANGED <<now, fs, reg, gcd, srcMods, nenv>>
    /\ UNCHANGED storeVars

\* the mtime snapshot generateGCD records after a merge
snapshotMods(hts) == Stat(Range(hts))

\* generateGCD after a successful merge: install the entry and the snapshot
GenInstall(c) ==
    /\ call[c].pc = "install"
    /\ LET v == call[c].ver
       IN  /\ gcd' = Put(gcd, v, [Path |-> GcdPath(v), SourceModTime |-> now,
                                  DeviceCount |-> Len(call[c].hts)])
           /\ srcMods' = Put(srcMods, v, snapshotMods(call[c].hts))
    /\ call' = [call EXCEPT ![c].installed = TRUE,
                            ![c].ver = nextVer(c),
                            ![c].todo = nextTodo(c),
                            ![c].pc = afterGen(c, FALSE)]
    /\ UNCHANGED <<now, fs, reg, gcdfile, nenv>>
    /\ UNCHANGED storeVars

\* what the file at a returned path was built from
builtFrom(v, path) ==
    IF path = GcdPath(v) THEN gcdfile[v].from ELSE Stat({path})

\* GetGCDHashtab, last part: read the entry and return its path
Final(c) ==
    /\ call[c].pc = "final"
    /\ LET v == call[c].ver
       IN  call' = [call EXCEPT ![c].pc = "done",
                                ![c].err = v \notin DOMAIN gcd,
                                ![c].res = IF v \in DOMAIN gcd THEN gcd[v].Path ELSE "",
                                ![c].resFrom = IF v \in DOMAIN gcd THEN builtFrom(v, gcd[v].Path) ELSE <<>>,
                                ![c].resCount = IF v \in DOMAIN gcd THEN gcd[v].DeviceCount ELSE 0,
                                ![c].resMods = IF v \in DOMAIN gcd THEN DOMAIN srcMods[v] ELSE {}]
    /\ UNCHANGED <<now, fs, reg, gcd, srcMods, gcdfile, nenv>>
    /\ UNCHANGED storeVars

\* the caller takes the result; the call is remembered as the previous one
CallReturn(c) ==
    /\ call[c].pc = "done"
    /\ call' = [call EXCEPT ![c] = [IdleCall EXCEPT !.prev =
                   [ver |-> call[c].ver, merges |-> call[c].merges, res |-> call[c].res,
                    err |-> call[c].err, valid |-> ~call[c].changed]]]
    /\ UNCHANGED <<now, fs, reg, gcd, srcMods, gcdfile, nenv>>
    /\ UNCHANGED storeVars

\* GenerateAll, called once by main before the server starts
GenerateAllStart ==
    /\ call["main"].pc = "idle"
    /\ LET vs == SelectSeq(<<"B", "A">>, LAMBDA v : Len(reg.byVersion[v]) > 0)
       IN  call' = [call EXCEPT !["main"] =
                       IF Len(vs) = 0 THEN [IdleCall EXCEPT !.pc = "off", !.kind = "all"]
                       ELSE [IdleCall EXCEPT !.pc = "gen", !.kind = "all", !.ver = Head(vs), !.todo = Tail(vs)]]
    /\ UNCHANGED <<now, fs, reg, gcd, srcMods, gcdfile, nenv>>
    /\ UNCHANGED storeVars

\* ------------------------------------------------------- the environment
\* a change of the tree marks the calls in flight and ends the quiet period
\* of the previous calls
noteChange(cs) == [c \in DOMAIN cs |-> [cs[c] EXCEPT !.changed = TRUE, !.prev.valid = FALSE]]

\* a source file is rewritten: its mtime becomes the current time
Touch(p) ==
    /\ p \in DOMAIN fs /\ fs[p] < now
    /\ fs' = [fs EXCEPT ![p] = now]
    /\ call' = noteChange(call)
    /\ nenv' = nenv + 1
    /\ UNCHANGED <<now, reg, gcd, srcMods, gcdfile>>
    /\ UNCHANGED storeVars

RemoveFile(p) ==
    /\ p \in DOMAIN fs
    /\ fs' = Without(fs, p)
    /\ call' = noteChange(call)
    /\ nenv' = nenv + 1
    /\ UNCHANGED <<now, reg, gcd, srcMods, gcdfile>>
    /\ UNCHANGED storeVars

CreateFile(p) ==
    /\ p \notin DOMAIN fs
    /\ fs' = Put(fs, p, now)
    /\ call' = noteChange(call)
    /\ nenv' = nenv + 1
    /\ UNCHANGED <<now, reg, gcd, srcMods, gcdfile>>
    /\ UNCHANGED storeVars

\* ---------------------------------------------------------- initial states
Callers == {"main", "c1", "c2"}

\* hashtab.NewService has loaded the tree, gcdcache.NewService has run
CacheInit(files) ==
    /\ fs = [p \in files |-> 0]
    /\ reg = loadHashtables(Nil)
    /\ gcd = <<>>
    /\ srcMods = <<>>
    /\ gcdfile = [v \in Versions |-> NoFile]
    /\ call = [c \in Callers |-> IdleCall]
    /\ nenv = 0

\* the cache of a program whose jobs are not looked at
CacheOff ==
    /\ fs = <<>>
    /\ reg = EmptyReg
    /\ gcd = <<>>
    /\ srcMods = <<>>
    /\ gcdfile = [v \in Versions |-> NoFile]
    /\ call = [c \in Callers |-> IdleCall]
    /\ nenv = 0

Statuses == {"pending", "running", "success", "error"}

OkFile == [Name |-> "f", Status |-> "success", Error |-> ""]

\* ======================================================================
\* The upload handler and the processing task
\* ======================================================================
IdleTask == [pc |-> "idle", id |-> Nil, version |-> "", n |-> 0, i |-> 0,
             results |-> <<>>, successCount |-> 0, gcdPath |-> "", outcomes |-> <<>>,
             out |-> {}]

\* relPaths, the names of the uploaded files in submission order
FileNames == <<"f1", "f2", "f3", "f4", "f5", "f6", "f7", "f8", "f9", "f10">>

\* mutant: the result of a failed file carries no error text
FileErrorNoText(name, msg) == [Name |-> name, Status |-> "error", Error |-> ""]

\* the FileResult of a file that could not be copied or hashed
FileError(name, msg) == [Name |-> name, Status |-> "error", Error |-> msg]

\* the FileResult of a hashed file
FileOk(name) == [Name |-> name, Status |-> "success", Error |-> ""]

\* int(float64(i+1) / float64(len(qmdFiles)) * 100), i counting the files done
progressOf(i, n) == (i * 100) \div n

\* Hash, from jobStore.Create on: the job is created for the n files kept
Hash(id, v, n) ==
    /\ task.pc \in {"idle", "end"}
    /\ Create(id)
    /\ task' = [IdleTask EXCEPT !.pc = "count", !.id = id, !.version = v, !.n = n]

\* Hash: job.FileCount = len(qmdFiles), written through the pointer Create
\* returned, without the lock
HashFileCount ==
    /\ task.pc = "count"
    /\ heap' = [heap EXCEPT ![task.id].FileCount = task.n]
    /\ task' = [task EXCEPT !.pc = "outdir"]
    /\ UNCHANGED <<now, jobs, watchers, chans, sub, stream, expect, dropped, everTerminal, nmut, closes, nsweep>>
    /\ UNCHANGED cacheVars

\* Hash: SetOutputDir, then the goroutine is started
HashOutputDir ==
    /\ task.pc = "outdir"
    /\ SetOutputDir(task.id, "out")
    /\ task' = [task EXCEPT !.pc = "prepare"]

\* processHashJob: the first update
TaskPrepare ==
    /\ task.pc = "prepare"
    /\ UpdateWithOperation(task.id, "running", "Getting GCD hashtab", "preparing")
    /\ task' = [task EXCEPT !.pc = "gcd"]

\* processHashJob calls gcdCache.GetGCDHashtab(version)
TaskGetGCD ==
    /\ task.pc = "gcd"
    /\ GetCheck("c2", task.version)
    /\ task' = [task EXCEPT !.pc = "gcdwait"]

\* mutant: the error of GetGCDHashtab is not looked at
TaskGotGCDIgnoresError ==
    /\ task.pc = "gcdwait"
    /\ task' = [task EXCEPT !.pc = "hashing", !.gcdPath = call["c2"].res]
    /\ CallReturn("c2")

\* GetGCDHashtab has returned
TaskGotGCD ==
    /\ task.pc = "gcdwait"
    /\ task' = [task EXCEPT !.pc = IF call["c2"].err THEN "gcdfail" ELSE "hashing",
                            !.gcdPath = call["c2"].res]
    /\ CallReturn("c2")

\* mutant: the task goes on after it has reported the missing version
afterGcdErrorGoesOn == "hashing"

\* where processHashJob goes after the error update of a failed GetGCDHashtab
afterGcdError == "end"

\* processHashJob: GetGCDHashtab failed; the output directory is removed
TaskGcdFail ==
    /\ task.pc = "gcdfail"
    /\ Update(task.id, "error", "Version not available")
    /\ task' = [task EXCEPT !.pc = afterGcdError, !.out = {}]

\* processHashJob: the second update
TaskHashing ==
    /\ task.pc = "hashing"
    /\ UpdateWithOperation(task.id, "running", "Hashing files", "hashing")
    /\ task' = [task EXCEPT !.pc = "loop", !.i = 0, !.results = <<>>, !.successCount = 0]

\* os.Remove(outputPath) after a failed HashDiffs
removeOutput(out, name) == out \ {name}

\* the files of the output directory after a round that failed on a file:
\* a failed HashDiffs ran on the copy, which is then removed; nothing is
\* removed after a failed copyFile, whose os.Create is taken to have
\* created the file
outAfterFailure(out, name, msg) ==
    IF msg = "Hashing failed" THEN removeOutput(out \cup {name}, name) ELSE out \cup {name}

\* one round of the loop on a file that cannot be copied or hashed
TaskFileFails(msg) ==
    /\ task.pc = "loop" /\ task.i < task.n
    /\ task' = [task EXCEPT !.i = task.i + 1,
                            !.results = Append(task.results, FileError(FileNames[task.i + 1], msg)),
                            !.outcomes = Append(task.outcomes, "fail"),
                            !.out = outAfterFailure(task.out, FileNames[task.i + 1], msg)]
    /\ UNCHANGED <<now, storeVars, cacheVars>>

\* one round of the loop on a file that is hashed
TaskFileHashed ==
    /\ task.pc = "loop" /\ task.i < task.n
    /\ UpdateProgress(task.id, progressOf(task.i + 1, task.n))
    /\ task' = [task EXCEPT !.i = task.i + 1,
                            !.results = Append(task.results, FileOk(FileNames[task.i + 1])),
                            !.outcomes = Append(task.outcomes, "ok"),
                            !.out = task.out \cup {FileNames[task.i + 1]},
                            !.successCount = task.successCount + 1]

\* processHashJob after the loop: SetFiles
TaskSetFiles ==
    /\ task.pc = "loop" /\ task.i = task.n
    /\ SetFiles(task.id, task.results)
    /\ task' = [task EXCEPT !.pc = "finish"]

\* mutant: one hashed file is not enough for success
finalStatusNeedsTwo(successCount) == IF successCount < 2 THEN "error" ELSE "success"

\* the status and message of the last update
finalStatus(successCount) == IF successCount = 0 THEN "error" ELSE "success"

finalMessage(successCount) == IF successCount = 0 THEN "All files failed to hash" ELSE "Hashed files"

\* processHashJob: the last update; when no file was hashed the output
\* directory is removed
TaskFinish ==
    /\ task.pc = "finish"
    /\ Update(task.id, finalStatus(task.successCount), finalMessage(task.successCount))
    /\ task' = [task EXCEPT !.pc = "end", !.out = IF task.successCount = 0 THEN {} ELSE task.out]

\* ======================================================================
\* The poll handler
\* ======================================================================
IdlePoll == [pc |-> "idle", id |-> Nil, fields |-> <<>>, k |-> 1, snap |-> <<>>, seen |-> {}]

\* the fields GetResults encodes, in the order it reads them
PollFields(status) ==
    IF Terminal(status) THEN <<"Status", "Message", "Files", "FileCount">>
    ELSE <<"Status", "Message", "Progress", "Operation", "FileCount">>

\* GetResults: jobStore.Get(jobID) returns the pointer the map holds
PollGet(id) ==
    /\ poll.pc = "idle"
    /\ id \in jobs
    /\ poll' = [IdlePoll EXCEPT !.pc = "check", !.id = id, !.seen = {heap[id]}]
    /\ UNCHANGED <<now, storeVars, cacheVars, task>>

\* GetResults on an id the map does not hold: the answer is "Job not found"
PollMiss(id) ==
    /\ poll.pc = "idle"
    /\ id \notin jobs
    /\ poll' = [IdlePoll EXCEPT !.pc = "notfound", !.id = id]
    /\ UNCHANGED <<now, storeVars, cacheVars, task>>

\* GetResults: the test of job.Status that selects the answer
PollCheck ==
    /\ poll.pc = "check"
    /\ poll' = [poll EXCEPT !.pc = "read", !.fields = PollFields(heap[poll.id].Status)]
    /\ UNCHANGED <<now, storeVars, cacheVars, task>>

\* GetResults: one field of the job is read for the answer
PollRead ==
    /\ poll.pc = "read"
    /\ LET f == poll.fields[poll.k]
       IN  poll' = [poll EXCEPT !.snap = Put(poll.snap, f, heap[poll.id][f]),
                                !.k = poll.k + 1,
                                !.pc = IF poll.k = Len(poll.fields) THEN "done" ELSE "read"]
    /\ UNCHANGED <<now, storeVars, cacheVars, task>>

\* the states of the job a poll in progress could have read: the one at Get
\* and every one a mutation has left since
PollSees ==
    poll' = [poll EXCEPT !.seen = IF poll.pc \in {"check", "read"}
                                  THEN poll.seen \cup {heap'[poll.id]} ELSE poll.seen]

\* ---------------------------------------------------------- initial states
StoreVarsInit ==
    /\ heap = <<>>
    /\ jobs = {}
    /\ watchers = <<>>
    /\ chans = [s \in Subs |-> NewChan]
    /\ sub = [s \in Subs |-> [pc |-> "idle", id |-> Nil, job |-> Nil, k |-> 1, copy |-> EmptyCopy]]
    /\ stream = [s \in Subs |-> <<>>]
    /\ expect = [s \in Subs |-> <<>>]
    /\ dropped = [s \in Subs |-> FALSE]
    /\ everTerminal = {}
    /\ nmut = 0
    /\ closes = [s \in Subs |-> 0]
    /\ nsweep = 0
    /\ task = IdleTask
    /\ poll = IdlePoll

\* NewStore, in a program whose cache is not looked at
StoreInit ==
    /\ now = 0
    /\ StoreVarsInit
    /\ CacheOff

\* ------------------------------------------------------------------------
\* SpecSub: one job, its mutators, and subscribers whose Subscribe runs
\* concurrently with them.
NextSub ==
    \/ Create(1) /\ UNCHANGED <<task, poll>>
    \/ nmut < MaxMut /\ Update(1, "success", "m") /\ UNCHANGED <<task, poll>>
    \/ nmut < MaxMut /\ UpdateWithOperation(1, "running", "m", "hashing") /\ UNCHANGED <<task, poll>>
    \/ nmut < MaxMut /\ UpdateProgress(1, 150) /\ UNCHANGED <<task, poll>>
    \/ nmut < MaxMut /\ AddFile(1, OkFile) /\ UNCHANGED <<task, poll>>
    \/ \E s \in Subs : SubRegister(s, 1) /\ UNCHANGED <<task, poll>>
    \/ \E s \in Subs : SubCopyField(s) /\ UNCHANGED <<task, poll>>
    \/ \E s \in Subs : SubSend(s) /\ UNCHANGED <<task, poll>>
    \/ \E s \in Subs : Recv(s) /\ UNCHANGED <<task, poll>>

SpecSub == StoreInit /\ [][NextSub]_vars

\* ------------------------------------------------------------------------
\* SpecLife: two jobs, updates with any status, and the clock.
NextLife ==
    \/ \E id \in JobIds : Create(id) /\ UNCHANGED <<task, poll>>
    \/ \E id \in JobIds, st \in Statuses : nmut < LifeMaxMut /\ Update(id, st, "m") /\ UNCHANGED <<task, poll>>
    \/ \E id \in JobIds, st \in Statuses : nmut < LifeMaxMut /\ UpdateWithOperation(id, st, "m", "hashing") /\ UNCHANGED <<task, poll>>
    \/ \E d \in {1, TTL} : (now + d) % TTL <= MaxSkew /\ Tick(d, LifeMaxNow) /\ UNCHANGED <<task, poll>>

SpecLife == StoreInit /\ [][NextLife]_vars

\* ------------------------------------------------------------------------
\* SpecSweep: two jobs that complete, one subscriber that comes and goes,
\* the clock and the periodic sweep.
NextSweep ==
    \/ \E id \in JobIds : Create(id) /\ UNCHANGED <<task, poll>>
    \/ \E id \in JobIds, st \in {"running", "success"} : nmut < SweepMaxMut /\ Update(id, st, "m") /\ UNCHANGED <<task, poll>>
    \/ \E id \in JobIds : SubRegister("a", id) /\ UNCHANGED <<task, poll>>
    \/ SubCopyField("a") /\ UNCHANGED <<task, poll>>
    \/ SubSend("a") /\ UNCHANGED <<task, poll>>
    \/ Unsubscribe("a") /\ UNCHANGED <<task, poll>>
    \/ nsweep < MaxSweeps /\ cleanupOldJobs /\ UNCHANGED <<task, poll>>
    \/ \E d \in {1, TTL} : (now + d) % TTL <= MaxSkew /\ Tick(d, LifeMaxNow) /\ UNCHANGED <<task, poll>>

SpecSweep == StoreInit /\ [][NextSweep]_vars

\* ------------------------------------------------------------------------
\* SpecDrop: a job with two subscribers that have both finished Subscribe;
\* "a" never reads its channel, "b" does.
DropInit ==
    /\ now = 0
    /\ heap = 1 :> NewJob
    /\ jobs = {1}
    /\ watchers = 1 :> <<"a", "b">>
    /\ chans = [s \in Subs |-> [NewChan EXCEPT !.buf = <<copyJob(NewJob)>>]]
    /\ sub = [s \in Subs |-> [pc |-> "subscribed", id |-> 1, job |-> 1, k |-> Len(CopyFields) + 1, copy |-> copyJob(NewJob)]]
    /\ stream = [s \in Subs |-> <<copyJob(NewJob)>>]
    /\ expect = [s \in Subs |-> <<copyJob(NewJob)>>]
    /\ dropped = [s \in Subs |-> FALSE]
    /\ everTerminal = {}
    /\ nmut = 0
    /\ closes = [s \in Subs |-> 0]
    /\ nsweep = 0
    /\ task = IdleTask
    /\ poll = IdlePoll
    /\ CacheOff

NextDrop ==
    \/ nmut < DropMaxMut /\ Update(1, "running", "m") /\ UNCHANGED <<task, poll>>
    \/ nmut < DropMaxMut /\ UpdateWithOperation(1, "running", "m", "hashing") /\ UNCHANGED <<task, poll>>
    \/ nmut < DropMaxMut /\ UpdateProgress(1, 150) /\ UNCHANGED <<task, poll>>
    \/ nmut < DropMaxMut /\ Len(heap[1].Files) < DropMaxFiles /\ AddFile(1, OkFile) /\ UNCHANGED <<task, poll>>
    \/ Recv("b") /\ UNCHANGED <<task, poll>>

SpecDrop == DropInit /\ [][NextDrop]_vars

\* ------------------------------------------------------------------------
\* SpecCache: the startup generation, then one caller of GetGCDHashtab at a
\* time, while files of the tree are rewritten, removed and created.
CachePaths == {"ht/A-rm1", "ht/A-rm2", "ht/B-rm1"}

CacheStart ==
    /\ now = 0
    /\ StoreVarsInit
    /\ \E files \in {CachePaths, {"ht/A-rm1", "ht/A-rm2"}} : CacheInit(files)

NextCache ==
    \/ GenerateAllStart /\ UNCHANGED <<task, poll>>
    \/ \E v \in Versions : GetCheck("c1", v) /\ UNCHANGED <<task, poll>>
    \/ Decide("c1") /\ UNCHANGED <<task, poll>>
    \/ \E c \in {"main", "c1"} : GenRead(c) /\ UNCHANGED <<task, poll>>
    \/ \E c \in {"main", "c1"} : MergeStart(c) /\ UNCHANGED <<task, poll>>
    \/ \E c \in {"main", "c1"}, o \in {"ok", "fail", "partial"} : MergeEnd(c, o) /\ UNCHANGED <<task, poll>>
    \/ \E c \in {"main", "c1"} : GenInstall(c) /\ UNCHANGED <<task, poll>>
    \/ Final("c1") /\ UNCHANGED <<task, poll>>
    \/ CallReturn("c1") /\ UNCHANGED <<task, poll>>
    \/ nenv < MaxEnv /\ Touch("ht/A-rm1") /\ UNCHANGED <<task, poll>>
    \/ \E p \in {"ht/A-rm2", "ht/B-rm1"} : nenv < MaxEnv /\ RemoveFile(p) /\ UNCHANGED <<task, poll>>
    \/ \E p \in {"ht/A-rm2", "ht/B-rm1"} : nenv < MaxEnv /\ CreateFile(p) /\ UNCHANGED <<task, poll>>
    \/ \E d \in {1, ReloadInterval} : now + d \in CacheTimes /\ Tick(d, ReloadInterval + 1) /\ UNCHANGED <<task, poll>>

SpecCache == CacheStart /\ [][NextCache]_vars

\* ------------------------------------------------------------------------
\* SpecTask: uploads handled one after the other, each with its processing
\* task, the startup generation before them, the clock and the sweep.
MaxFiles == 2

NextTask ==
    \/ GenerateAllStart /\ UNCHANGED <<task, poll>>
    \/ \E c \in {"main", "c2"} : GenRead(c) /\ UNCHANGED <<task, poll>>
    \/ \E c \in {"main", "c2"} : MergeStart(c) /\ UNCHANGED <<task, poll>>
    \/ \E c \in {"main", "c2"}, o \in {"ok", "fail"} : MergeEnd(c, o) /\ UNCHANGED <<task, poll>>
    \/ \E c \in {"main", "c2"} : GenInstall(c) /\ UNCHANGED <<task, poll>>
    \/ Decide("c2") /\ UNCHANGED <<task, poll>>
    \/ Final("c2") /\ UNCHANGED <<task, poll>>
    \/ \E id \in JobIds, v \in Versions, n \in 1..MaxFiles : call["main"].pc = "off" /\ Hash(id, v, n) /\ UNCHANGED poll
    \/ HashFileCount /\ UNCHANGED poll
    \/ HashOutputDir /\ UNCHANGED poll
    \/ TaskPrepare /\ UNCHANGED poll
    \/ TaskGetGCD /\ UNCHANGED poll
    \/ TaskGotGCD /\ UNCHANGED poll
    \/ TaskGcdFail /\ UNCHANGED poll
    \/ TaskHashing /\ UNCHANGED poll
    \/ \E msg \in {"Failed to copy file", "Hashing failed"} : TaskFileFails(msg) /\ UNCHANGED poll
    \/ TaskFileHashed /\ UNCHANGED poll
    \/ TaskSetFiles /\ UNCHANGED poll
    \/ TaskFinish /\ UNCHANGED poll
    \/ nsweep < MaxSweeps /\ cleanupOldJobs /\ UNCHANGED <<task, poll>>
    \/ Tick(TTL + 1, TTL + 1) /\ UNCHANGED <<task, poll>>

TaskStart ==
    /\ now = 0
    /\ StoreVarsInit
    /\ CacheInit({"ht/A-rm1", "ht/A-rm2"})

SpecTask == TaskStart /\ [][NextTask]_vars

\* ------------------------------------------------------------------------
\* SpecRace: after the startup generation, two callers of GetGCDHashtab for
\* version A whose calls overlap, and a source file that is rewritten.
NextRace ==
    \/ GenerateAllStart /\ UNCHANGED <<task, poll>>
    \/ \E c \in {"c1", "c2"} : GetCheck(c, "A") /\ UNCHANGED <<task, poll>>
    \/ \E c \in {"c1", "c2"} : Decide(c) /\ UNCHANGED <<task, poll>>
    \/ \E c \in Callers : GenRead(c) /\ UNCHANGED <<task, poll>>
    \/ \E c \in Callers : MergeStart(c) /\ UNCHANGED <<task, poll>>
    \/ \E c \in Callers, o \in {"ok", "fail"} : MergeEnd(c, o) /\ UNCHANGED <<task, poll>>
    \/ \E c \in Callers : GenInstall(c) /\ UNCHANGED <<task, poll>>
    \/ \E c \in {"c1", "c2"} : Final(c) /\ UNCHANGED <<task, poll>>
    \/ \E c \in {"c1", "c2"} : CallReturn(c) /\ UNCHANGED <<task, poll>>
    \/ nenv < MaxEnv /\ Touch("ht/A-rm1") /\ UNCHANGED <<task, poll>>
    \/ Tick(1, 1) /\ UNCHANGED <<task, poll>>

RaceStart ==
    /\ now = 0
    /\ StoreVarsInit
    /\ CacheInit({"ht/A-rm1", "ht/A-rm2"})

SpecRace == RaceStart /\ [][NextRace]_vars

\* ------------------------------------------------------------------------
\* SpecPoll: one job that is updated while a request polls it.
NextPoll ==
    \/ Create(1) /\ UNCHANGED <<task, poll>>
    \/ 1 \in jobs /\ heap[1].Status = "pending" /\ UpdateWithOperation(1, "running", "Hashing files", "hashing") /\ PollSees /\ UNCHANGED task
    \/ 1 \in jobs /\ heap[1].Status = "running" /\ nmut < PollMaxMut /\ UpdateProgress(1, 50 * nmut) /\ PollSees /\ UNCHANGED task
    \/ 1 \in jobs /\ heap[1].Status = "running" /\ Len(heap[1].Files) = 0 /\ SetFiles(1, <<OkFile>>) /\ PollSees /\ UNCHANGED task
    \/ 1 \in jobs /\ heap[1].Status = "running" /\ Update(1, "success", "Hashed files") /\ PollSees /\ UNCHANGED task
    \/ PollGet(1)
    \/ PollCheck
    \/ PollRead
    \/ poll.pc = "done" /\ poll' = IdlePoll /\ UNCHANGED <<now, storeVars, cacheVars, task>>

SpecPoll == StoreInit /\ [][NextPoll]_vars

\* ------------------------------------------------------------------------
\* SpecPurge: two jobs, their updates, a subscriber of either, the clock,
\* and Cleanup called on either job at any moment.
PurgeMaxMut == 2

NextPurge ==
    \/ \E id \in JobIds : Create(id) /\ UNCHANGED <<task, poll>>
    \/ \E id \in JobIds, st \in {"running", "success"} : nmut < PurgeMaxMut /\ Update(id, st, "m") /\ UNCHANGED <<task, poll>>
    \/ \E id \in JobIds : SubRegister("a", id) /\ UNCHANGED <<task, poll>>
    \/ SubCopyField("a") /\ UNCHANGED <<task, poll>>
    \/ SubSend("a") /\ UNCHANGED <<task, poll>>
    \/ \E id \in JobIds : Cleanup(id) /\ UNCHANGED <<task, poll>>
    \/ Tick(TTL + 1, TTL + 1) /\ UNCHANGED <<task, poll>>

SpecPurge == StoreInit /\ [][NextPurge]_vars

\* ------------------------------------------------------------------------
\* SpecReg: a tree that also holds an unparseable file and a second file
\* with the base name of another, one caller of GetGCDHashtab, and files
\* that are rewritten, removed and created.
NextReg ==
    \/ GenerateAllStart /\ UNCHANGED <<task, poll>>
    \/ \E v \in Versions : GetCheck("c1", v) /\ UNCHANGED <<task, poll>>
    \/ Decide("c1") /\ UNCHANGED <<task, poll>>
    \/ \E c \in {"main", "c1"} : GenRead(c) /\ UNCHANGED <<task, poll>>
    \/ \E c \in {"main", "c1"} : MergeStart(c) /\ UNCHANGED <<task, poll>>
    \/ \E c \in {"main", "c1"} : MergeEnd(c, "ok") /\ UNCHANGED <<task, poll>>
    \/ \E c \in {"main", "c1"} : GenInstall(c) /\ UNCHANGED <<task, poll>>
    \/ Final("c1") /\ UNCHANGED <<task, poll>>
    \/ CallReturn("c1") /\ UNCHANGED <<task, poll>>
    \/ \E p \in {"ht/A-rm2", "ht/junk"} : nenv < MaxEnv /\ Touch(p) /\ UNCHANGED <<task, poll>>
    \/ \E p \in {"ht/A-rm1", "ht/junk", "ht/sub/A-rm1"} : nenv < MaxEnv /\ RemoveFile(p) /\ UNCHANGED <<task, poll>>
    \/ \E p \in {"ht/junk", "ht/sub/A-rm1"} : nenv < MaxEnv /\ CreateFile(p) /\ UNCHANGED <<task, poll>>
    \/ \E d \in {1, ReloadInterval} : now + d \in CacheTimes /\ Tick(d, ReloadInterval + 1) /\ UNCHANGED <<task, poll>>

RegStart ==
    /\ now = 0
    /\ StoreVarsInit
    /\ \E files \in {Paths, CachePaths, {"ht/A-rm1", "ht/A-rm2", "ht/junk"}} : CacheInit(files)

SpecReg == RegStart /\ [][NextReg]_vars

\* ------------------------------------------------------------------------
\* SpecWalk: one caller of GetGCDHashtab over a tree whose directories can
\* become unreadable at the moment of a walk.
NextWalk ==
    \/ GenerateAllStart /\ UNCHANGED <<task, poll>>
    \/ \E v \in Versions : GetCheck("c1", v) /\ UNCHANGED <<task, poll>>
    \/ \E v \in Versions : DetectWalkFails("c1", v) /\ UNCHANGED <<task, poll>>
    \/ \E v \in Versions, k \in WalkFailPoints : RebuildWalkFails("c1", v, k) /\ UNCHANGED <<task, poll>>
    \/ Decide("c1") /\ UNCHANGED <<task, poll>>
    \/ \E c \in {"main", "c1"} : GenRead(c) /\ UNCHANGED <<task, poll>>
    \/ \E c \in {"main", "c1"} : MergeStart(c) /\ UNCHANGED <<task, poll>>
    \/ \E c \in {"main", "c1"} : MergeEnd(c, "ok") /\ UNCHANGED <<task, poll>>
    \/ \E c \in {"main", "c1"} : GenInstall(c) /\ UNCHANGED <<task, poll>>
    \/ Final("c1") /\ UNCHANGED <<task, poll>>
    \/ CallReturn("c1") /\ UNCHANGED <<task, poll>>
    \/ nenv < MaxEnv /\ Touch("ht/A-rm2") /\ UNCHANGED <<task, poll>>
    \/ now + ReloadInterval \in CacheTimes /\ Tick(ReloadInterval, ReloadInterval + 1) /\ UNCHANGED <<task, poll>>

WalkStart ==
    /\ now = 0
    /\ StoreVarsInit
    /\ \E files \in {Paths, CachePaths} : CacheInit(files)

SpecWalk == WalkStart /\ [][NextWalk]_vars

\* ------------------------------------------------------------------------
\* SpecVer: a reader of the version list next to one caller of
\* GetGCDHashtab, over trees from which files are removed.
NextVer ==
    \/ GenerateAllStart /\ UNCHANGED <<task, poll>>
    \/ \E v \in Versions : GetCheck("c1", v) /\ UNCHANGED <<task, poll>>
    \/ Decide("c1") /\ UNCHANGED <<task, poll>>
    \/ \E c \in {"main", "c1"} : GenRead(c) /\ UNCHANGED <<task, poll>>
    \/ \E c \in {"main", "c1"} : MergeStart(c) /\ UNCHANGED <<task, poll>>
    \/ \E c \in {"main", "c1"} : MergeEnd(c, "ok") /\ UNCHANGED <<task, poll>>
    \/ \E c \in {"main", "c1"} : GenInstall(c) /\ UNCHANGED <<task, poll>>
    \/ Final("c1") /\ UNCHANGED <<task, poll>>
    \/ CallReturn("c1") /\ UNCHANGED <<task, poll>>
    \/ GetVersionsCall("c2") /\ UNCHANGED <<task, poll>>
    \/ \E p \in {"ht/A-rm1", "ht/B-rm1"} : nenv < MaxEnv /\ RemoveFile(p) /\ UNCHANGED <<task, poll>>

VerStart ==
    /\ now = 0
    /\ StoreVarsInit
    /\ \E files \in {Paths, CachePaths, {"ht/A-rm1", "ht/A-rm2"}} : CacheInit(files)

SpecVer == VerStart /\ [][NextVer]_vars

\* ------------------------------------------------------------------------
\* SpecUnsub: one job, its mutators, and two subscribers, each of which
\* calls its unsubscribe once after Subscribe has returned.
UnsubMaxMut == 2

NextUnsub ==
    \/ Create(1) /\ UNCHANGED <<task, poll>>
    \/ nmut < UnsubMaxMut /\ Update(1, "running", "m") /\ UNCHANGED <<task, poll>>
    \/ nmut < UnsubMaxMut /\ UpdateProgress(1, 50) /\ UNCHANGED <<task, poll>>
    \/ \E s \in Subs : SubRegister(s, 1) /\ UNCHANGED <<task, poll>>
    \/ \E s \in Subs : SubCopyField(s) /\ UNCHANGED <<task, poll>>
    \/ \E s \in Subs : SubSend(s) /\ UNCHANGED <<task, poll>>
    \/ \E s \in Subs : sub[s].pc = "subscribed" /\ Unsubscribe(s) /\ UNCHANGED <<task, poll>>
    \/ Recv("b") /\ UNCHANGED <<task, poll>>

SpecUnsub == StoreInit /\ [][NextUnsub]_vars

\* ------------------------------------------------------------------------
\* SpecStore: one job that is mutated with every kind of argument while a
\* subscriber watches it.
StoreMaxMut == 2

ProgressInputs == {-5, 50, 150}

FileLists == {<<>>, <<OkFile, FileError("g", "failed")>>}

NextStore ==
    \/ Create(1) /\ UNCHANGED <<task, poll>>
    \/ \E p \in ProgressInputs : nmut < StoreMaxMut /\ UpdateProgress(1, p) /\ UNCHANGED <<task, poll>>
    \/ nmut < StoreMaxMut /\ AddFile(1, OkFile) /\ UNCHANGED <<task, poll>>
    \/ \E files \in FileLists : SetFiles(1, files) /\ UNCHANGED <<task, poll>>
    \/ SetOutputDir(1, "out") /\ UNCHANGED <<task, poll>>
    \/ SubRegister("a", 1) /\ UNCHANGED <<task, poll>>
    \/ SubCopyField("a") /\ UNCHANGED <<task, poll>>
    \/ SubSend("a") /\ UNCHANGED <<task, poll>>

SpecStore == StoreInit /\ [][NextStore]_vars

\* ------------------------------------------------------------------------
\* SpecLookup: two jobs that are created, completed, purged or swept, a
\* subscriber that may come before the job, and a lookup at any moment.
NextLookup ==
    \/ \E id \in JobIds : Create(id) /\ UNCHANGED <<task, poll>>
    \/ \E id \in jobs : heap[id].Status = "pending" /\ Update(id, "success", "m") /\ UNCHANGED <<task, poll>>
    \/ SubRegister("a", 1) /\ UNCHANGED <<task, poll>>
    \/ SubCopyField("a") /\ UNCHANGED <<task, poll>>
    \/ SubSend("a") /\ UNCHANGED <<task, poll>>
    \/ sub["a"].pc = "subscribed" /\ Unsubscribe("a") /\ UNCHANGED <<task, poll>>
    \/ \E id \in JobIds : Cleanup(id) /\ UNCHANGED <<task, poll>>
    \/ nsweep < MaxSweeps /\ cleanupOldJobs /\ UNCHANGED <<task, poll>>
    \/ Tick(TTL + 1, TTL + 1) /\ UNCHANGED <<task, poll>>
    \/ \E id \in JobIds : PollGet(id)
    \/ \E id \in JobIds : PollMiss(id)
    \/ poll.pc \in {"check", "notfound"} /\ poll' = IdlePoll /\ UNCHANGED <<now, storeVars, cacheVars, task>>

SpecLookup == StoreInit /\ [][NextLookup]_vars

\* ------------------------------------------------------------------------
\* SpecFail: one upload of one file for a version that has two artifacts or
\* none, merges that may fail, a subscriber that comes once the task
\* prepares or later, and a request that polls the job around its last
\* update.
NextFail ==
    \/ GenerateAllStart /\ UNCHANGED <<task, poll>>
    \/ \E c \in {"main", "c2"} : GenRead(c) /\ UNCHANGED <<task, poll>>
    \/ \E c \in {"main", "c2"} : MergeStart(c) /\ UNCHANGED <<task, poll>>
    \/ \E c \in {"main", "c2"}, o \in {"ok", "fail"} : MergeEnd(c, o) /\ UNCHANGED <<task, poll>>
    \/ \E c \in {"main", "c2"} : GenInstall(c) /\ UNCHANGED <<task, poll>>
    \/ Decide("c2") /\ UNCHANGED <<task, poll>>
    \/ Final("c2") /\ UNCHANGED <<task, poll>>
    \/ \E v \in Versions : call["main"].pc = "off" /\ task.pc = "idle" /\ Hash(1, v, 1) /\ UNCHANGED poll
    \/ HashFileCount /\ PollSees
    \/ HashOutputDir /\ PollSees
    \/ TaskPrepare /\ PollSees
    \/ TaskGetGCD /\ UNCHANGED poll
    \/ TaskGotGCD /\ UNCHANGED poll
    \/ TaskGcdFail /\ PollSees
    \/ TaskHashing /\ PollSees
    \/ TaskFileFails("Hashing failed") /\ UNCHANGED poll
    \/ TaskFileHashed /\ PollSees
    \/ TaskSetFiles /\ PollSees
    \/ TaskFinish /\ PollSees
    \/ task.pc \in {"gcd", "gcdwait", "gcdfail", "end"} /\ SubRegister("a", 1) /\ UNCHANGED <<task, poll>>
    \/ SubCopyField("a") /\ UNCHANGED <<task, poll>>
    \/ SubSend("a") /\ UNCHANGED <<task, poll>>
    \/ task.pc \in {"gcdfail", "end"} /\ PollGet(1)
    \/ PollCheck
    \/ PollRead
    \/ poll.pc = "done" /\ poll' = IdlePoll /\ UNCHANGED <<now, storeVars, cacheVars, task>>

SpecFail == TaskStart /\ [][NextFail]_vars

\* ------------------------------------------------------------------------
\* SpecLock: one caller of CheckAndReload, whose rebuild goes path by path
\* and can fail at a directory, next to one reader of the index. Files are
\* created and rewritten between the walks.
LockMaxEnv == 2

NextLock ==
    \/ CheckOnly("c1") /\ UNCHANGED <<task, poll>>
    \/ RebuildBegin("c1") /\ UNCHANGED <<task, poll>>
    \/ RebuildStep("c1") /\ UNCHANGED <<task, poll>>
    \/ RebuildEnd("c1") /\ UNCHANGED <<task, poll>>
    \/ RebuildFails("c1") /\ UNCHANGED <<task, poll>>
    \/ ReadVersions("c2") /\ UNCHANGED <<task, poll>>
    \/ \E v \in Versions : ReadHashtabs("c2", v) /\ UNCHANGED <<task, poll>>
    \/ CallReturn("c2") /\ UNCHANGED <<task, poll>>
    \/ \E p \in {"ht/A-rm2", "ht/sub/A-rm1"} : ~Locked /\ nenv < LockMaxEnv /\ CreateFile(p) /\ UNCHANGED <<task, poll>>
    \/ ~Locked /\ nenv < LockMaxEnv /\ Touch("ht/A-rm1") /\ UNCHANGED <<task, poll>>
    \/ now + ReloadInterval \in CacheTimes /\ Tick(ReloadInterval, ReloadInterval + 1) /\ UNCHANGED <<task, poll>>

LockStart ==
    /\ now = 0
    /\ StoreVarsInit
    /\ \E files \in {{"ht/A-rm1", "ht/B-rm1"}, {"ht/A-rm1", "ht/B-rm1", "ht/junk"}} : CacheInit(files)

SpecLock == LockStart /\ [][NextLock]_vars

\* ------------------------------------------------------------------------
\* SpecWatch: one upload for a version with a single source, its processing
\* task, a request that polls the job and a subscriber that registers while
\* the task is in its loop or after it.
NextWatch ==
    \/ GenerateAllStart /\ UNCHANGED <<task, poll>>
    \/ \E c \in {"main", "c2"} : GenRead(c) /\ UNCHANGED <<task, poll>>
    \/ Decide("c2") /\ UNCHANGED <<task, poll>>
    \/ Final("c2") /\ UNCHANGED <<task, poll>>
    \/ \E n \in 1..MaxFiles : call["main"].pc = "off" /\ task.pc = "idle" /\ Hash(1, "B", n) /\ UNCHANGED poll
    \/ HashFileCount /\ UNCHANGED poll
    \/ HashOutputDir /\ UNCHANGED poll
    \/ TaskPrepare /\ UNCHANGED poll
    \/ TaskGetGCD /\ UNCHANGED poll
    \/ TaskGotGCD /\ UNCHANGED poll
    \/ TaskHashing /\ UNCHANGED poll
    \/ TaskFileFails("Hashing failed") /\ UNCHANGED poll
    \/ TaskFileHashed /\ PollSees
    \/ TaskSetFiles /\ PollSees
    \/ TaskFinish /\ PollSees
    \/ task.pc \in {"loop", "finish", "end"} /\ SubRegister("a", 1) /\ UNCHANGED <<task, poll>>
    \/ SubCopyField("a") /\ UNCHANGED <<task, poll>>
    \/ SubSend("a") /\ UNCHANGED <<task, poll>>
    \/ task.pc \in {"loop", "finish", "end"} /\ PollGet(1)
    \/ PollCheck
    \/ PollRead
    \/ poll.pc = "done" /\ poll' = IdlePoll /\ UNCHANGED <<now, storeVars, cacheVars, task>>

WatchStart ==
    /\ now = 0
    /\ StoreVarsInit
    /\ CacheInit({"ht/B-rm1"})

SpecWatch == WatchStart /\ [][NextWatch]_vars

\* ------------------------------------------------------------------------
\* SpecEngine: one upload for version A and its processing task, after the
\* startup generation; a source file is rewritten, and a merge that fails
\* can leave a partial file at its output path.
NextEngine ==
    \/ GenerateAllStart /\ UNCHANGED <<task, poll>>
    \/ \E c \in {"main", "c2"} : GenRead(c) /\ UNCHANGED <<task, poll>>
    \/ \E c \in {"main", "c2"} : MergeStart(c) /\ UNCHANGED <<task, poll>>
    \/ \E c \in {"main", "c2"}, o \in {"ok", "fail", "partial"} : MergeEnd(c, o) /\ UNCHANGED <<task, poll>>
    \/ \E c \in {"main", "c2"} : GenInstall(c) /\ UNCHANGED <<task, poll>>
    \/ Decide("c2") /\ UNCHANGED <<task, poll>>
    \/ Final("c2") /\ UNCHANGED <<task, poll>>
    \/ \E n \in 1..MaxFiles : call["main"].pc = "off" /\ task.pc = "idle" /\ Hash(1, "A", n) /\ UNCHANGED poll
    \/ HashFileCount /\ UNCHANGED poll
    \/ HashOutputDir /\ UNCHANGED poll
    \/ TaskPrepare /\ UNCHANGED poll
    \/ TaskGetGCD /\ UNCHANGED poll
    \/ TaskGotGCD /\ UNCHANGED poll
    \/ TaskGcdFail /\ UNCHANGED poll
    \/ TaskHashing /\ UNCHANGED poll
    \/ \E msg \in {"Failed to copy file", "Hashing failed"} : TaskFileFails(msg) /\ UNCHANGED poll
    \/ TaskFileHashed /\ UNCHANGED poll
    \/ TaskSetFiles /\ UNCHANGED poll
    \/ TaskFinish /\ UNCHANGED poll
    \/ nenv < MaxEnv /\ Touch("ht/A-rm1") /\ UNCHANGED <<task, poll>>
    \/ now < 1 /\ Tick(1, 1) /\ UNCHANGED <<task, poll>>

SpecEngine == TaskStart /\ [][NextEngine]_vars

\* ------------------------------------------------------------------------
\* SpecLive: one upload and its processing task after the startup
\* generation, with a subscriber that registers before the task's first
\* update and never reads its channel. The first MaxFiles files of the
\* batch can fail. Every engine run returns, and the task and the
\* generation it calls are scheduled: weak fairness on their steps.
LiveFiles == 8

TaskStep ==
    \/ HashFileCount /\ UNCHANGED poll
    \/ HashOutputDir /\ UNCHANGED poll
    \/ TaskPrepare /\ UNCHANGED poll
    \/ TaskGetGCD /\ UNCHANGED poll
    \/ TaskGotGCD /\ UNCHANGED poll
    \/ TaskGcdFail /\ UNCHANGED poll
    \/ TaskHashing /\ UNCHANGED poll
    \/ task.i < MaxFiles /\ TaskFileFails("Hashing failed") /\ UNCHANGED poll
    \/ TaskFileHashed /\ UNCHANGED poll
    \/ TaskSetFiles /\ UNCHANGED poll
    \/ TaskFinish /\ UNCHANGED poll

EngineStep ==
    \/ \E c \in {"main", "c2"} : GenRead(c) /\ UNCHANGED <<task, poll>>
    \/ \E c \in {"main", "c2"} : MergeStart(c) /\ UNCHANGED <<task, poll>>
    \/ \E c \in {"main", "c2"}, o \in {"ok", "fail"} : MergeEnd(c, o) /\ UNCHANGED <<task, poll>>
    \/ \E c \in {"main", "c2"} : GenInstall(c) /\ UNCHANGED <<task, poll>>
    \/ Decide("c2") /\ UNCHANGED <<task, poll>>
    \/ Final("c2") /\ UNCHANGED <<task, poll>>

NextLive ==
    \/ GenerateAllStart /\ UNCHANGED <<task, poll>>
    \/ \E v \in Versions, n \in {1, LiveFiles} : call["main"].pc = "off" /\ task.pc = "idle" /\ Hash(1, v, n) /\ UNCHANGED poll
    \/ TaskStep
    \/ EngineStep
    \/ task.pc \in {"count", "outdir", "prepare"} /\ SubRegister("a", 1) /\ UNCHANGED <<task, poll>>
    \/ task.pc \in {"count", "outdir", "prepare"} /\ SubCopyField("a") /\ UNCHANGED <<task, poll>>
    \/ SubSend("a") /\ UNCHANGED <<task, poll>>
    \/ sub["a"].pc = "subscribed" /\ Unsubscribe("a") /\ UNCHANGED <<task, poll>>

SpecLive == TaskStart /\ [][NextLive]_vars /\ WF_vars(TaskStep) /\ WF_vars(EngineStep)

\* ------------------------------------------------------------------------
\* SpecGc: two jobs that are updated, one subscriber of job 1 that
\* unsubscribes, the clock and the periodic sweep. Time passes and the
\* ticker fires: weak fairness on the clock and on the sweep. A sweep that
\* would remove nothing is left out, it changes nothing.
GcMaxMut == 2

GcSkew == 1

GcMaxNow == TTL + GcSkew

GcSweep == sweepVictims # {} /\ cleanupOldJobs /\ UNCHANGED <<task, poll>>

GcTick == \E d \in {1, TTL} : (now + d) % TTL <= GcSkew /\ Tick(d, GcMaxNow) /\ UNCHANGED <<task, poll>>

NextGc ==
    \/ \E id \in JobIds : Create(id) /\ UNCHANGED <<task, poll>>
    \/ \E id \in JobIds, st \in {"running", "success"} : nmut < GcMaxMut /\ Update(id, st, "m") /\ UNCHANGED <<task, poll>>
    \/ SubRegister("a", 1) /\ UNCHANGED <<task, poll>>
    \/ SubCopyField("a") /\ UNCHANGED <<task, poll>>
    \/ SubSend("a") /\ UNCHANGED <<task, poll>>
    \/ sub["a"].pc = "subscribed" /\ Unsubscribe("a") /\ UNCHANGED <<task, poll>>
    \/ GcSweep
    \/ GcTick

SpecGc == StoreInit /\ [][NextGc]_vars /\ WF_vars(GcSweep) /\ WF_vars(GcTick)

\* ------------------------------------------------------------------------
\* SpecShare: one upload for version A and its processing task, next to
\* another request that calls GetGCDHashtab(A), after the startup
\* generation; a source file is rewritten.
NextShare ==
    \/ GenerateAllStart /\ UNCHANGED <<task, poll>>
    \/ GetCheck("c1", "A") /\ UNCHANGED <<task, poll>>
    \/ \E c \in {"c1", "c2"} : Decide(c) /\ UNCHANGED <<task, poll>>
    \/ \E c \in Callers : GenRead(c) /\ UNCHANGED <<task, poll>>
    \/ \E c \in Callers : MergeStart(c) /\ UNCHANGED <<task, poll>>
    \/ \E c \in Callers : MergeEnd(c, "ok") /\ UNCHANGED <<task, poll>>
    \/ \E c \in Callers : GenInstall(c) /\ UNCHANGED <<task, poll>>
    \/ \E c \in {"c1", "c2"} : Final(c) /\ UNCHANGED <<task, poll>>
    \/ CallReturn("c1") /\ UNCHANGED <<task, poll>>
    \/ call["main"].pc = "off" /\ task.pc = "idle" /\ Hash(1, "A", 1) /\ UNCHANGED poll
    \/ HashFileCount /\ UNCHANGED poll
    \/ HashOutputDir /\ UNCHANGED poll
    \/ TaskPrepare /\ UNCHANGED poll
    \/ TaskGetGCD /\ UNCHANGED poll
    \/ TaskGotGCD /\ UNCHANGED poll
    \/ TaskHashing /\ UNCHANGED poll
    \/ TaskFileFails("Hashing failed") /\ UNCHANGED poll
    \/ TaskFileHashed /\ UNCHANGED poll
    \/ TaskSetFiles /\ UNCHANGED poll
    \/ TaskFinish /\ UNCHANGED poll
    \/ nenv < MaxEnv /\ Touch("ht/A-rm1") /\ UNCHANGED <<task, poll>>
    \/ now < 1 /\ Tick(1, 1) /\ UNCHANGED <<task, poll>>

SpecShare == TaskStart /\ [][NextShare]_vars

\* ------------------------------------------------------------------------
\* SpecFrame: two jobs, "a" subscribing to job 1 and "b" to job 2, whether
\* created or not; the mutators and Cleanup are called on job 1, before it
\* is created, while it exists and after it is removed, but not while the
\* copyJob of a Subscribe(1) is reading the job.
FrameMaxMut == 1

\* the mutators of the store on one id
MutatorOn(id) ==
    \/ nmut < FrameMaxMut /\ Update(id, "success", "m")
    \/ nmut < FrameMaxMut /\ UpdateWithOperation(id, "running", "m", "hashing")
    \/ nmut < FrameMaxMut /\ UpdateProgress(id, 50)
    \/ nmut < FrameMaxMut /\ AddFile(id, OkFile)
    \/ SetFiles(id, <<OkFile>>)
    \/ SetOutputDir(id, "out")
    \/ MutateMissing(id)

\* Subscribe(id) and the unsubscribe it returns
SubscriberOn(id) ==
    \/ \E s \in Subs : IndexOf(<<"a", "b">>, s) = id /\ SubRegister(s, id)
    \/ \E s \in Subs : sub[s].id = id /\ SubCopyField(s)
    \/ \E s \in Subs : sub[s].id = id /\ SubSend(s)
    \/ \E s \in Subs : sub[s].id = id /\ sub[s].pc = "subscribed" /\ Unsubscribe(s)

\* the operations of the store on one id
OpOn(id) == MutatorOn(id) \/ SubscriberOn(id) \/ Cleanup(id)

NextFrame ==
    \/ \E id \in JobIds : Create(id) /\ UNCHANGED <<task, poll>>
    \/ sub["a"].pc # "copy" /\ MutatorOn(1) /\ UNCHANGED <<task, poll>>
    \/ \E id \in JobIds : SubscriberOn(id) /\ UNCHANGED <<task, poll>>
    \/ Cleanup(1) /\ UNCHANGED <<task, poll>>

SpecFrame == StoreInit /\ [][NextFrame]_vars

\* ======================================================================
\* Claims
\* ======================================================================

\* C1: a subscriber of an existing job whose buffer never filled has
\* received, once Subscribe has returned, first the snapshot of the job's
\* state at registration and then exactly one snapshot per later mutation,
\* in mutation order.
C1_DeliveryOrder ==
    \A s \in Subs :
        (sub[s].pc = "subscribed" /\ sub[s].job # Nil /\ ~dropped[s]) => stream[s] = expect[s]

C3_TerminalSticks ==
    [][\A id \in jobs : Terminal(heap[id].Status) => heap'[id].Status = heap[id].Status]_vars

\* C4: CompletedAt is unset exactly while the job never had a terminal
\* status, it is set to the current time by the update that first makes the
\* job terminal, and no later step changes it.
C4_CompletedAtOnce ==
    /\ [](\A id \in DOMAIN heap : (heap[id].CompletedAt = Nil) <=> (id \notin everTerminal))
    /\ [][\A id \in DOMAIN heap :
            /\ heap[id].CompletedAt # Nil => heap'[id].CompletedAt = heap[id].CompletedAt
            /\ (heap[id].CompletedAt = Nil /\ heap'[id].CompletedAt # Nil)
                   => (Terminal(heap'[id].Status) /\ heap'[id].CompletedAt = now)]_vars

\* C4 witness: a job stamped in the past that a later update made running
C4_Witness ==
    \E id \in jobs : /\ id \in everTerminal
                     /\ heap[id].Status = "running"
                     /\ heap[id].CompletedAt # Nil
                     /\ heap[id].CompletedAt < now

\* C5: a mutation is never held up by a subscriber: it is enabled whatever
\* the buffers hold, and the step leaves a full buffer (10 snapshots) as it
\* was while every other subscriber of the job gets the new snapshot
\* appended.
C5_DropWhenFull ==
    /\ [](ENABLED UpdateProgress(1, 150))
    /\ [][nmut' # nmut =>
            \A s \in Listeners(1) :
                IF Len(chans[s].buf) = ChanCap
                THEN chans'[s].buf = chans[s].buf
                ELSE chans'[s].buf = Append(chans[s].buf, copyJob(heap'[1]))]_vars

\* C5 witness: "a" has a full buffer and lost a snapshot that "b" got
C5_Witness ==
    /\ dropped["a"] /\ Len(chans["a"].buf) = ChanCap
    /\ ~dropped["b"] /\ Len(stream["b"]) > Len(stream["a"])

C7_Idempotent ==
    \A c \in Callers :
        (/\ call[c].pc = "done" /\ ~call[c].err /\ ~call[c].changed
         /\ call[c].prev.valid /\ ~call[c].prev.err /\ call[c].prev.ver = call[c].ver)
        => (call[c].prev.merges + call[c].merges <= 1 /\ call[c].res = call[c].prev.res)

\* C8: the artifact a successful GetGCDHashtab call returns was built from
\* no source content older than the one on disk when the call started.
C8_NoStaleArtifact ==
    \A c \in Callers :
        (call[c].pc = "done" /\ ~call[c].err)
        => \A p \in DOMAIN call[c].fs0 \cap DOMAIN call[c].resFrom :
               call[c].resFrom[p] >= call[c].fs0[p]

\* C9 as claimed: whenever it is called, a successful GetGCDHashtab call
\* during which the tree did not change leaves an entry whose device count
\* is the number of source files the version has on disk.
C9_CountAlwaysCurrent ==
    \A c \in Callers :
        (call[c].pc = "done" /\ ~call[c].err /\ ~call[c].changed)
        => call[c].resCount = Cardinality(DOMAIN call[c].fs0)

\* C9 amended: the same for the calls that start when a registry scan has
\* already picked up every file created or removed for the version.
C9_CountCurrentOnceScanned ==
    \A c \in Callers :
        (call[c].pc = "done" /\ ~call[c].err /\ ~call[c].changed /\ call[c].synced)
        => /\ call[c].resCount = Cardinality(DOMAIN call[c].fs0)
           /\ call[c].resMods = DOMAIN call[c].fs0

\* C9 witness: after a file of version A was removed and a scan saw it, a
\* call regenerated the entry with the new count
C9_Witness ==
    /\ call["c1"].pc = "done" /\ ~call["c1"].err /\ ~call["c1"].changed /\ call["c1"].synced
    /\ call["c1"].ver = "A" /\ call["c1"].regen /\ call["c1"].resCount = 1
    /\ nenv > 0 /\ "ht/A-rm2" \notin DOMAIN fs

\* C10: generateGCD fails and installs nothing when the registry has no
\* hashtab for the version; with one hashtab it installs that hashtab's path
\* with count 1 without running the engine; with N >= 2 it runs the engine
\* once, on the registry's paths in the registry's order, fails and installs
\* nothing if the engine fails, and else installs the version's cache path
\* with count N.
C10_Generate ==
    [][\A c \in Callers :
        LET v == call[c].ver
            n == Len(reg.byVersion[v])
        IN  /\ (call[c].pc = "gen" /\ call'[c] # call[c] /\ fs' = fs) =>
                 /\ n = 0 => (call'[c].err /\ ~call'[c].installed /\ gcd' = gcd /\ call'[c].merges = 0)
                 /\ n = 1 => /\ ~call'[c].err /\ call'[c].installed /\ call'[c].merges = 0
                             /\ gcd'[v].Path = reg.byVersion[v][1] /\ gcd'[v].DeviceCount = 1
                             /\ gcdfile' = gcdfile
                 /\ n >= 2 => (call'[c].pc = "merge" /\ call'[c].hts = reg.byVersion[v] /\ gcd' = gcd)
            /\ (call[c].pc = "merge" /\ call'[c].pc = "merging") =>
                 (call'[c].args = call[c].hts /\ call'[c].merges = 1)
            /\ (call[c].pc = "merging" /\ call'[c].pc # "merging") =>
                 IF call'[c].pc = "install" THEN ~call'[c].err /\ gcd' = gcd
                 ELSE call'[c].err /\ ~call'[c].installed /\ gcd' = gcd
            /\ (call[c].pc = "install" /\ call'[c].pc # "install") =>
                 /\ ~call'[c].err /\ call'[c].installed /\ call'[c].merges = 1
                 /\ gcd'[v].Path = GcdPath(v) /\ gcd'[v].DeviceCount = Len(call[c].args)
                 /\ Len(call[c].args) >= 2]_vars

\* C10 witness: a call generated version A from two hashtabs with one engine
\* run, and version B is served by its only hashtab
C10_Witness ==
    /\ call["c1"].pc = "final" /\ call["c1"].ver = "A" /\ call["c1"].regen
    /\ call["c1"].installed /\ call["c1"].merges = 1
    /\ gcd["A"].Path = GcdPath("A") /\ gcd["A"].DeviceCount = 2
    /\ "B" \in DOMAIN gcd /\ gcd["B"].Path = "ht/B-rm1" /\ gcd["B"].DeviceCount = 1

\* C11: at no time are two engine runs for the same version in flight.
C11_OneMergeInFlight ==
    \A v \in Versions : Cardinality(Merging(v)) <= 1

\* C12: when a GetGCDHashtab call for a version failed in the engine, the
\* next call for the version, with the tree unchanged and the registry up to
\* date, runs the engine again.
C12_RetryAfterFailure ==
    \A c \in Callers :
        (/\ call[c].pc = "done" /\ ~call[c].changed /\ call[c].synced
         /\ Cardinality(DOMAIN call[c].fs0) >= 2
         /\ call[c].prev.valid /\ call[c].prev.ver = call[c].ver
         /\ call[c].prev.err /\ call[c].prev.merges = 1)
        => call[c].merges = 1

\* C13: when the task has ended, the job's status is error if no file of
\* the batch was hashed (also when GetGCDHashtab failed) and success if at
\* least one was.
C13_StatusByCount ==
    (task.pc = "end" /\ task.id \in jobs) =>
        LET hashed == {i \in 1..Len(task.outcomes) : task.outcomes[i] = "ok"}
        IN  /\ heap[task.id].Status = "error" <=> hashed = {}
            /\ heap[task.id].Status = "success" <=> hashed # {}

\* C13 witness: a batch of two whose first file failed and whose second was
\* hashed has ended
C13_Witness ==
    /\ task.pc = "end" /\ task.id \in jobs
    /\ task.outcomes = <<"fail", "ok">> /\ heap[task.id].Status = "success"

\* C14: when the task has ended after GetGCDHashtab succeeded, the job holds
\* one FileResult per submitted file, in submission order, with status
\* success for the hashed files and status error with an error text for the
\* others, and FileCount is the number of submitted files.
C14_OneResultPerFile ==
    (task.pc = "end" /\ task.id \in jobs /\ task.gcdPath # "") =>
        LET j == heap[task.id]
        IN  /\ Len(task.outcomes) = task.n
            /\ Len(j.Files) = task.n /\ j.FileCount = task.n
            /\ \A i \in 1..task.n :
                  /\ j.Files[i].Name = FileNames[i]
                  /\ task.outcomes[i] = "ok" => j.Files[i].Status = "success"
                  /\ task.outcomes[i] = "fail" =>
                        (j.Files[i].Status = "error" /\ j.Files[i].Error # "")

\* C14 witness: a batch of two whose first file was hashed and whose second
\* failed has ended
C14_Witness ==
    /\ task.pc = "end" /\ task.id \in jobs /\ task.n = 2
    /\ task.outcomes = <<"ok", "fail">>
    /\ heap[task.id].Files[2].Status = "error" /\ heap[task.id].Files[1].Status = "success"

\* C15: the values a finished poll has read are those of one state the job
\* had between Get and the last read.
C15_PollSnapshot ==
    poll.pc = "done" =>
        \E j \in poll.seen : \A f \in DOMAIN poll.snap : poll.snap[f] = j[f]

\* C16: Cleanup(id) can be called on any job at any moment; a step that
\* removes a job or its subscriber list or closes one of its channels is
\* such a call and does all three at once, leaving the other jobs and the
\* other channels alone, so that the id is no longer found.
C16_Purge ==
    /\ [](\A id \in JobIds : ENABLED Cleanup(id))
    /\ [][\A id \in JobIds :
            (\/ id \in jobs /\ id \notin jobs'
             \/ id \in DOMAIN watchers /\ id \notin DOMAIN watchers'
             \/ \E s \in Listeners(id) : ~chans[s].closed /\ chans'[s].closed)
            => /\ jobs' = jobs \ {id}
               /\ DOMAIN watchers' = DOMAIN watchers \ {id}
               /\ \A s \in Subs : chans'[s].closed = (chans[s].closed \/ s \in Listeners(id))]_vars

\* C16 witness: job 1 was purged while it was running, young and watched by
\* a subscriber, whose channel is now closed
C16_Witness ==
    /\ 1 \in DOMAIN heap /\ 1 \notin jobs /\ 1 \notin DOMAIN watchers
    /\ heap[1].Status = "running" /\ now = 0
    /\ sub["a"].pc = "subscribed" /\ sub["a"].id = 1 /\ chans["a"].closed

\* C17: a CheckAndReload that is not rate-limited reports a reload exactly
\* when the tree differs from the one the index was last built from, and
\* leaves the index as it is when the tree is the same.
C17_ReloadIffChanged ==
    [][\A c \in Callers :
        (/\ call[c].pc = "idle" /\ call'[c].pc \in {"gen", "decide"} /\ call'[c].kind = "get"
         /\ (reg.lastReloadCheck = Nil \/ now - reg.lastReloadCheck >= ReloadInterval))
        => /\ (call'[c].pc = "gen") <=> (fs # reg.loadedFrom)
           /\ fs = reg.loadedFrom =>
                 /\ reg'.hashtables = reg.hashtables /\ reg'.byVersion = reg.byVersion
                 /\ reg'.pathByName = reg.pathByName /\ reg'.modTimes = reg.modTimes]_vars

\* C18: a CheckAndReload made less than 5 seconds after the last
\* scan reports no reload and changes nothing in the registry; a scan is
\* never made less than 5 seconds after the one before; and a scan reports a
\* reload whenever the tree differs in any way from the one last loaded.
C18_EveryChangeReported ==
    [][/\ reg'.lastReloadCheck # reg.lastReloadCheck =>
             (reg.lastReloadCheck = Nil \/ now - reg.lastReloadCheck >= ReloadInterval)
       /\ \A c \in Callers :
            (call[c].pc = "idle" /\ call'[c].pc \in {"gen", "decide"} /\ call'[c].kind = "get")
            => IF reg.lastReloadCheck # Nil /\ now - reg.lastReloadCheck < ReloadInterval
               THEN reg' = reg /\ call'[c].pc = "decide"
               ELSE /\ reg'.lastReloadCheck = now
                    /\ fs # reg.loadedFrom => call'[c].pc = "gen"]_vars

\* C19: a CheckAndReload in which a directory walk fails, the
\* change-detection walk or the rebuild walk, reports no reload and leaves
\* the artifact list, the version groups, the name map and the mtime map as
\* they were.
C19_WalkFailureKeepsIndex ==
    [][\A c \in Callers :
        (call[c].pc = "idle" /\ call'[c].walkErr)
        => /\ call'[c].pc = "decide"
           /\ reg'.hashtables = reg.hashtables /\ reg'.byVersion = reg.byVersion
           /\ reg'.pathByName = reg.pathByName /\ reg'.modTimes = reg.modTimes]_vars

\* C20 as claimed: no two indexed artifacts have the same base name, and of
\* the files of the loaded tree that share a base name every one but the
\* first met in walk order is left out of the index.
C20_FirstMetWins ==
    /\ \A i, j \in 1..Len(reg.hashtables) :
          Base(reg.hashtables[i]) = Base(reg.hashtables[j]) => i = j
    /\ \A p, q \in DOMAIN reg.loadedFrom :
          (Base(p) = Base(q) /\ IndexOf(WalkOrder, p) < IndexOf(WalkOrder, q))
          => q \notin Range(reg.hashtables)

\* C20 amended: no two indexed artifacts have the same base name, and the
\* indexed files are, of the files of the loaded tree that parse, the first
\* met in walk order of each base name; a file that does not parse does not
\* keep a later file of its base name out of the index.
C20_FirstLoadedWins ==
    /\ \A i, j \in 1..Len(reg.hashtables) :
          Base(reg.hashtables[i]) = Base(reg.hashtables[j]) => i = j
    /\ Range(reg.hashtables) =
          {p \in DOMAIN reg.loadedFrom :
              /\ Loadable(p)
              /\ \A q \in DOMAIN reg.loadedFrom :
                    (Loadable(q) /\ Base(q) = Base(p))
                    => IndexOf(WalkOrder, p) <= IndexOf(WalkOrder, q)}

\* C20 witness: a reload has rebuilt the index from a tree that holds two
\* parseable files of one base name, and indexed the first
C20_Witness ==
    /\ nenv > 0 /\ reg.lastReloadCheck # Nil /\ reg.loadedFrom = fs
    /\ \E p \in DOMAIN fs : fs[p] > 0
    /\ {"ht/A-rm1", "ht/sub/A-rm1"} \subseteq DOMAIN reg.loadedFrom
    /\ "ht/A-rm1" \in Range(reg.hashtables)
    /\ "ht/sub/A-rm1" \notin Range(reg.hashtables)

\* C21: the list GetVersions returns has one entry for each version that
\* has indexed artifacts and no other, in descending order of the version
\* string; an entry's devices are those of the version's artifacts, one per
\* artifact, in ascending order, and its deviceCount is their number.
C21_GetVersions ==
    [][\A c \in Callers :
        (call[c].pc = "idle" /\ call'[c].pc = "idle" /\ call'[c].versions # call[c].versions)
        => LET vs == call'[c].versions
           IN  /\ Len(vs) = Cardinality({v \in Versions : reg.byVersion[v] # <<>>})
               /\ {vs[i].Version : i \in 1..Len(vs)} = {v \in Versions : reg.byVersion[v] # <<>>}
               /\ \A i, j \in 1..Len(vs) : i < j => StrLess(vs[j].Version, vs[i].Version)
               /\ \A i \in 1..Len(vs) :
                     LET hts == reg.byVersion[vs[i].Version]
                         ds == vs[i].Devices
                     IN  /\ vs[i].DeviceCount = Len(hts)
                         /\ Len(ds) = Len(hts)
                         /\ \A d \in {"rm1", "rm2"} :
                               Cardinality({k \in 1..Len(ds) : ds[k] = d})
                                 = Cardinality({k \in 1..Len(hts) : Device(hts[k]) = d})
                         /\ \A k, l \in 1..Len(ds) : k < l => ~StrLess(ds[l], ds[k])]_vars

\* C21 witness: GetVersions has answered for an index that holds both
\* versions and in which the artifacts of A are not in the order of their
\* devices
C21_Witness ==
    /\ reg.byVersion["A"] = <<"ht/A-rm2", "ht/sub/A-rm1">>
    /\ Len(reg.byVersion["B"]) = 2
    /\ Len(call["c2"].versions) = 2
    /\ call["c2"].versions[1] = [Version |-> "B", Devices |-> <<"rm1", "rm2">>, DeviceCount |-> 2]
    /\ call["c2"].versions[2] = [Version |-> "A", Devices |-> <<"rm1", "rm2">>, DeviceCount |-> 2]

\* C22: a subscriber's unsubscribe takes exactly its channel out of the
\* job's subscriber list and closes it, leaving the list's other channels
\* and every other channel as they are; from then on the channel is in no
\* list and nothing is sent to it; and every mutation puts its snapshot
\* into the channel of every subscriber still listed whose buffer has room.
C22_Unsubscribe ==
    [][\A s \in Subs :
        /\ (sub[s].pc = "subscribed" /\ sub'[s].pc = "unsubscribed")
           => /\ watchers' = [watchers EXCEPT ![sub[s].id] =
                                 SelectSeq(watchers[sub[s].id], LAMBDA t : t # s)]
              /\ chans' = [chans EXCEPT ![s].closed = TRUE]
        /\ sub'[s].pc = "unsubscribed"
           => /\ \A id \in DOMAIN watchers' : s \notin Range(watchers'[id])
              /\ chans'[s].closed /\ ~chans'[s].sentClosed
              /\ Len(chans'[s].buf) <= Len(chans[s].buf)
        /\ (nmut' = nmut + 1 /\ s \in Listeners(1) /\ Len(chans[s].buf) < ChanCap)
           => chans'[s].buf = Append(chans[s].buf, copyJob(heap'[1]))]_vars

\* C22 witness: "a" subscribed to the new job and unsubscribed before any
\* mutation; "b", subscribed next to it, has since been sent the snapshots
\* of two mutations, "a" none
C22_Witness ==
    /\ sub["a"].pc = "unsubscribed" /\ chans["a"].closed
    /\ expect["a"] = <<copyJob(NewJob)>> /\ stream["a"] = <<copyJob(NewJob)>>
    /\ sub["b"].pc = "subscribed" /\ watchers[1] = <<"b">>
    /\ nmut = 2 /\ Len(stream["b"]) = 3 /\ stream["b"][3] = copyJob(heap[1])

\* C23: the progress of every job is always between 0 and 100, and an
\* UpdateProgress(id, p) on a stored job leaves 0 for a negative p, 100 for
\* a p above 100 and p otherwise, and puts the snapshot of the job with
\* that progress into the channel of every subscriber whose buffer has room.
C23_ProgressClamped ==
    /\ [](\A id \in DOMAIN heap : heap[id].Progress \in 0..100)
    /\ [][\A id \in JobIds, p \in ProgressInputs :
            UpdateProgress(id, p)
            => /\ p < 0 => heap'[id].Progress = 0
               /\ p > 100 => heap'[id].Progress = 100
               /\ p \in 0..100 => heap'[id].Progress = p
               /\ \A s \in Listeners(id) :
                     (~chans[s].closed /\ Len(chans[s].buf) < ChanCap)
                     => /\ Len(chans'[s].buf) = Len(chans[s].buf) + 1
                        /\ chans'[s].buf[Len(chans'[s].buf)].Progress = heap'[id].Progress]_vars

\* C23 witness: the subscriber of job 1 was sent a snapshot with progress
\* 100 and after it one with progress 0, which is the progress now stored
C23_Witness ==
    /\ 1 \in jobs /\ heap[1].Progress = 0 /\ nmut = 2
    /\ Len(stream["a"]) = 3
    /\ stream["a"][2].Progress = 100 /\ stream["a"][3].Progress = 0

C25_FilesAndBroadcast ==
    [][/\ \A files \in FileLists :
            SetFiles(1, files)
            => /\ heap'[1].Files = files /\ heap'[1].FileCount = Len(files)
               /\ chans' = chans /\ stream' = stream
       /\ AddFile(1, OkFile)
            => /\ heap'[1].Files = Append(heap[1].Files, OkFile)
               /\ heap'[1].FileCount = Len(heap[1].Files) + 1
               /\ \A s \in Subs :
                     chans'[s].buf =
                        IF s \in Listeners(1) /\ ~chans[s].closed /\ Len(chans[s].buf) < ChanCap
                        THEN Append(chans[s].buf, copyJob(heap'[1]))
                        ELSE chans[s].buf
       /\ SetOutputDir(1, "out")
            => /\ heap'[1].OutputDir = "out"
               /\ chans' = chans /\ stream' = stream]_vars

\* C25 witness: the subscriber of job 1 was sent the snapshot of an AddFile
\* and nothing for the SetFiles and SetOutputDir that came after it
C25_Witness ==
    /\ 1 \in jobs /\ sub["a"].pc = "subscribed" /\ "a" \in Listeners(1)
    /\ nmut = 1 /\ Len(stream["a"]) = 2
    /\ stream["a"][1].FileCount = 0 /\ stream["a"][2].Files = <<OkFile>>
    /\ stream["a"][2].FileCount = 1
    /\ heap[1].FileCount = 2 /\ heap[1].OutputDir = "out"

\* C26: a task whose version has no artifacts in the registry never gets to
\* the hashing of files; a merge that fails makes GetGCDHashtab return an
\* error; a task whose GetGCDHashtab returned an error makes one more
\* update, to status error, with no file tried and no file result stored,
\* and ends; the snapshot of that update is put into the channel of every
\* subscriber whose buffer has room; the job stays in the store in that
\* state, and a poll made of it answers error with no files.
C26_FailedVersion ==
    /\ [](task.pc \in {"hashing", "loop", "finish"} => Len(reg.byVersion[task.version]) > 0)
    /\ [](task.pc = "gcdfail" =>
             /\ task.outcomes = <<>> /\ heap[task.id].Files = <<>>
             /\ ~Terminal(heap[task.id].Status))
    /\ []((task.pc = "end" /\ task.outcomes = <<>>) =>
             /\ task.id \in jobs
             /\ heap[task.id].Status = "error" /\ heap[task.id].Files = <<>>)
    /\ []((poll.pc = "done" /\ \A j \in poll.seen : j.Status = "error" /\ j.Files = <<>>)
             => (poll.snap["Status"] = "error" /\ poll.snap["Files"] = <<>>))
    /\ [][/\ MergeEnd("c2", "fail") => (call'["c2"].err /\ call'["c2"].pc = "done")
          /\ (task.pc = "gcdwait" /\ task'.pc # "gcdwait" /\ call["c2"].err)
               => task'.pc = "gcdfail"
          /\ (task.pc = "gcdfail" /\ task'.pc # "gcdfail")
               => /\ task'.pc = "end" /\ task'.outcomes = <<>>
                  /\ heap'[task.id].Status = "error" /\ heap'[task.id].Files = <<>>
                  /\ \A s \in Listeners(task.id) :
                        (~chans[s].closed /\ Len(chans[s].buf) < ChanCap)
                        => chans'[s].buf = Append(chans[s].buf, copyJob(heap'[task.id]))]_vars

\* C26 witness: the merge for the upload's version failed; the task has
\* ended, the subscriber's last snapshot is the error state without files,
\* and a poll begun after the error update has answered error
C26_Witness ==
    /\ task.pc = "end" /\ task.version = "A" /\ task.outcomes = <<>>
    /\ call["c2"].prev.err /\ call["c2"].prev.merges = 1
    /\ heap[1].Status = "error"
    /\ sub["a"].pc = "subscribed" /\ Len(stream["a"]) = 2
    /\ stream["a"][1].Status = "running"
    /\ stream["a"][2].Status = "error" /\ stream["a"][2].Files = <<>>
    /\ poll.pc = "done" /\ poll.seen = {heap[1]} /\ poll.snap["Status"] = "error"

\* C27: a GetGCDHashtab whose CheckAndReload reported no change, for a
\* version whose entry has the registry's count and was generated from the
\* registry's artifacts, all on disk and last written before the entry was
\* generated, does not regenerate: it goes on to return the entry's path and
\* leaves the entry and the mtime snapshot as they are.
C27_CachedPathReturned ==
    [][\A c \in Callers :
        (/\ call[c].pc = "decide" /\ call'[c].pc # "decide"
         /\ call[c].ver \in DOMAIN gcd
         /\ gcd[call[c].ver].DeviceCount = Len(reg.byVersion[call[c].ver])
         /\ DOMAIN srcMods[call[c].ver] = Range(reg.byVersion[call[c].ver])
         /\ \A p \in Range(reg.byVersion[call[c].ver]) :
               p \in DOMAIN fs /\ fs[p] < gcd[call[c].ver].SourceModTime)
        => (call'[c].pc = "final" /\ gcd' = gcd /\ srcMods' = srcMods)]_vars

\* C28: whatever a reader of the index (GetVersions, GetHashtabsForVersion)
\* reads next to a CheckAndReload is the whole index of a tree the index was
\* built from, the one from before the reload or the one after it, never
\* an index that was emptied or rebuilt in part.
C28_ReaderSeesWholeIndex ==
    call["c2"].pc = "done" => call["c2"].synced

\* C29: an answer to a poll and a snapshot pushed to a subscriber that have
\* the status success carry the list of file results, with one result per
\* submitted file; and the job has the status success only once the complete
\* list is stored.
C29_SuccessHasFiles ==
    /\ (poll.pc = "done" /\ poll.snap["Status"] = "success")
          => ("Files" \in DOMAIN poll.snap /\ Len(poll.snap["Files"]) = task.n)
    /\ \A s \in Subs : \A i \in 1..Len(stream[s]) :
          stream[s][i].Status = "success"
             => (stream[s][i].Files = task.results /\ Len(stream[s][i].Files) = task.n)
    /\ \A id \in jobs :
          heap[id].Status = "success"
             => (heap[id].Files = task.results /\ Len(heap[id].Files) = task.n)

\* C30: after a failed engine invocation the path it wrote to holds no
\* file: the round of the task's loop whose HashDiffs failed leaves no file
\* of that name in the output directory, and a generateGCD whose merge
\* failed leaves no file at the version's gcd path while an entry of the
\* cache points to that path.
C30_FailedOutputRemoved ==
    [][/\ TaskFileFails("Hashing failed") => FileNames[task.i + 1] \notin task'.out
       /\ \A c \in Callers :
             (call[c].pc = "merging" /\ call'[c].pc # "merging" /\ call'[c].err)
                => ~(/\ call[c].ver \in DOMAIN gcd'
                     /\ gcd'[call[c].ver].Path = GcdPath(call[c].ver)
                     /\ gcdfile'[call[c].ver].exists)]_vars

\* C31: once the processing task of a job has started, the job eventually
\* has a terminal status, whatever the outcomes of the merge and of the
\* files, and although the job's subscriber never reads its channel.
C31_TaskReachesTerminal ==
    (task.pc = "prepare") ~> (task.pc = "end" /\ Terminal(heap[task.id].Status))

\* the task has ended a job of LiveFiles files while the buffer of the
\* subscriber was full and a snapshot was dropped
C31_Witness ==
    /\ task.pc = "end" /\ task.n = LiveFiles
    /\ heap[1].Status = "success"
    /\ Len(chans["a"].buf) = ChanCap
    /\ dropped["a"]

\* C32: a job with a terminal status whose subscriber has
\* unsubscribed, completed early enough for the clock to pass its retention
\* window, is eventually removed: Get no longer finds it.
C32_SweptEventually ==
    \A id \in JobIds :
        (/\ id \in jobs
         /\ Terminal(heap[id].Status)
         /\ heap[id].CompletedAt + TTL < GcMaxNow
         /\ sub["a"].pc = "unsubscribed")
        ~> (id \notin jobs)

\* the sweep has removed job 1, which the subscriber had subscribed to
\* and unsubscribed from
C32_Witness ==
    /\ 1 \in DOMAIN heap /\ 1 \notin jobs
    /\ Terminal(heap[1].Status)
    /\ nsweep > 0
    /\ sub["a"].pc = "unsubscribed" /\ sub["a"].job = 1

\* C33: no subscriber's channel is closed more than once, whatever the
\* order of the calls of unsubscribe, Cleanup and the sweep.
C33_ClosedAtMostOnce ==
    \A s \in Subs : closes[s] <= 1

\* C34: no send, of a broadcast or of Subscribe's initial snapshot, is made
\* on a channel that has been closed.
C34_NoSendOnClosed ==
    \A s \in Subs : ~chans[s].sentClosed

\* C35: Subscribe's send of the initial snapshot is never blocked: when
\* Subscribe is at the send, its channel, which no reader has yet, has room
\* in its buffer.
C35_InitialSendNotBlocked ==
    \A s \in Subs : sub[s].pc = "send" => Len(chans[s].buf) < ChanCap

\* C36: every id that has a subscriber list in the store is the id of a job
\* the store holds.
C36_WatchersOfJobsOnly ==
    DOMAIN watchers \subseteq jobs

\* C37: while the task has files left to rewrite with the gcd path
\* GetGCDHashtab returned to it, no engine run is writing that path.
C37_NoMergeWhileHashing ==
    \A v \in Versions :
        (task.pc = "loop" /\ task.i < task.n /\ task.gcdPath = GcdPath(v)) => Merging(v) = {}

\* C38: in every job with a terminal status, FileCount is the number of
\* FileResults the job holds.
C38_FileCountIsResults ==
    \A id \in jobs :
        Terminal(heap[id].Status) => heap[id].FileCount = Len(heap[id].Files)

\* C39: a job whose status is success has progress 100.
C39_SuccessIsComplete ==
    \A id \in jobs : heap[id].Status = "success" => heap[id].Progress = 100

\* C40: a step that is an operation on one id leaves every other job as it
\* is: its fields, its presence in the store, its subscriber list, and the
\* channels of its subscribers, to which nothing is sent and which are not
\* closed. Only Create adds a job to the store, and a snapshot is only
\* delivered to a subscriber of a job the store holds.
C40_Frame ==
    [][/\ \A a \in JobIds : \A b \in JobIds \ {a} :
             OpOn(a) =>
                /\ b \in DOMAIN heap => (b \in DOMAIN heap' /\ heap'[b] = heap[b])
                /\ b \in jobs <=> b \in jobs'
                /\ b \in DOMAIN watchers <=> b \in DOMAIN watchers'
                /\ b \in DOMAIN watchers => watchers'[b] = watchers[b]
                /\ \A s \in Subs : sub[s].id = b =>
                      (chans'[s] = chans[s] /\ stream'[s] = stream[s] /\ closes'[s] = closes[s])
       /\ jobs' \subseteq jobs \/ \E id \in JobIds : Create(id)
       /\ \A s \in Subs : stream'[s] # stream[s] => sub'[s].id \in jobs]_vars

\* job 1 has been updated and has delivered to its subscriber while job 2
\* and its subscriber were there, and job 2 is still as it was created
C40_Witness ==
    /\ jobs = {1, 2}
    /\ heap[1].Status = "success" /\ heap[2] = NewJob
    /\ sub["a"].pc = "subscribed" /\ sub["b"].pc = "subscribed"
    /\ Len(stream["a"]) = 2 /\ Len(stream["b"]) = 1

====
